---------------------------- MODULE Spec2Model ----------------------------
(***************************************************************************)
(* Lease-based idempotent activities (convertFile, processGuide), the      *)
(* host's retry policy, the manual-retry route with retryGuideWorkflow,    *)
(* and the ground-truth reconciler (refinalizeRun) of the guide            *)
(* generation pipeline.                                                    *)
(*                                                                         *)
(* Every database call of an activity is one atomic step; an activity      *)
(* execution is a record holding its position (pc) and its locals.         *)
(***************************************************************************)
EXTENDS Integers, FiniteSets, Sequences, TLC

(***************************************************************************)
(* Bounds of the model.                                                    *)
(***************************************************************************)
\* number of clock ticks the model lets pass
MaxTicks == 2
\* number of host timeouts plus worker crashes the model lets happen
MaxFaults == 1

(***************************************************************************)
(* Program constants.                                                      *)
(***************************************************************************)
\* LEASE_EXPIRY_MS = 5 * 60 * 1000
LEASE_EXPIRY_MS == 5 * 60 * 1000
\* retry.maximumAttempts of the activity proxies
MAX_ATTEMPTS == 4
\* the literal 3 of `attempt < 3` in processGuide / processGuideInternal
ATTEMPT_BUDGET == 3
\* LEASE_REFRESH_INTERVAL_MS = 30 * 1000
LEASE_REFRESH_INTERVAL_MS == 30 * 1000

\* one clock tick: the clock is observed at multiples of the lease expiry
TickMs == LEASE_EXPIRY_MS

\* SQL NULL for a timestamp column and for a token column
NullTime == -1
NullToken == 0

(***************************************************************************)
(* The run's items and the activity invocations made on them.              *)
(***************************************************************************)
Files == {"f1"}
Guides == {"g1"}
\* the guides of the reconciler specification
ReconcileGuides == {"g1", "g2", "g3"}
\* manual-retry requests (POST /api/guides/:id/retry), each starts one
\* retryGuideWorkflow
Routes == {"r1", "r2"}
\* the manual-retry requests of the main specification
MainRoutes == {"r1"}

\* activity invocations: convertFile(f1) and processGuide(g1) of the chunk
\* workflows, processGuide(g1, true) of each retryGuideWorkflow
Ops == {"cf1", "pg1", "r1", "r2"}
\* the activity invocations of a run with two files and two guides
ScenarioOps == {"cf1", "cf2", "pg1", "pg2"}
OpKind(o) == IF o \in {"cf1", "cf2"} THEN "file" ELSE "guide"
OpItem(o) ==
    CASE o = "cf1" -> "f1" [] o = "cf2" -> "f2" [] o = "pg2" -> "g2" [] OTHER -> "g1"
OpManual(o) == o \in Routes
OpIndex(o) ==
    CASE o = "cf1" -> 1 [] o = "pg1" -> 2 [] o = "r1" -> 3 [] o = "r2" -> 4
      [] o = "cf2" -> 5 [] o = "pg2" -> 6
Attempts == 1..MAX_ATTEMPTS

\* generateProcessingToken: `${workflowId}:${activityId}:${attempt}`, one
\* distinct token per activity attempt
generateProcessingToken(o, k) == OpIndex(o) * 10 + k

VARIABLES
    files,   \* File rows: id -> row
    guides,  \* Guide rows: id -> row
    run,     \* the Run row
    ex,      \* activity executions: op -> host attempt -> pc and locals
    host,    \* the host's view of each activity invocation
    route,   \* manual-retry request handlers
    wf,      \* retryGuideWorkflow instances
    now,     \* the clock (ms)
    faults,  \* host timeouts and crashes so far
    orch     \* guideGenerationWorkflow: position, loop index, chunk sub-executions

vars == <<files, guides, run, ex, host, route, wf, now, faults, orch>>

(***************************************************************************)
(* Rows after run creation (POST /api/runs).                               *)
(***************************************************************************)
NewFile ==
    [status |-> "pending", token |-> NullToken, startedAt |-> NullTime,
     content |-> "null", error |-> "null"]

\* (leases is not a column: it counts the lease acquisitions of the guide)
NewGuide(force) ==
    [status |-> "pending", attempts |-> 0, token |-> NullToken,
     startedAt |-> NullTime, heartbeatAt |-> NullTime,
     html |-> "null", search |-> "null", reason |-> "null",
     details |-> "null", force |-> force, leases |-> 0]

NewRun(nFiles, nGuides) ==
    [status |-> "processing", stage |-> "initializing",
     totalFiles |-> nFiles, convertedFiles |-> 0,
     totalGuides |-> nGuides, completedGuides |-> 0, failedGuides |-> 0,
     completedAt |-> NullTime, errorMessage |-> "null"]

\* (wrote, stale and sawHeld are not locals of the code: wrote records that
\* the execution changed the item row, stale that one of its
\* token-conditioned writes matched no row, sawHeld that its acquire found
\* the item in progress, leased that it issued the acquire, late that a
\* token-conditioned write of convertFile matched no row because the file
\* was already converted or failed)
NewExec ==
    [pc |-> "none", attempt |-> 0, force |-> FALSE, cached |-> FALSE,
     reuse |-> FALSE, lastRefresh |-> NullTime, err |-> "none",
     result |-> "none", wrote |-> FALSE, stale |-> FALSE, sawHeld |-> FALSE,
     leased |-> FALSE, late |-> FALSE]

\* no guideGenerationWorkflow is tracked
NoOrch == [pc |-> "none"]

NewHost == [state |-> "idle", cur |-> 0, result |-> "none", err |-> "none"]

NewWf == [pc |-> "none", completed |-> 0, needsAttention |-> 0, pending |-> 0,
          inProgress |-> 0]

FileTerminal(s) == s \in {"converted", "failed"}
GuideTerminal(s) == s \in {"completed", "needs_attention"}
GuideInProgress(s) == s \in {"searching", "generating"}


(***************************************************************************)
(* Execution bookkeeping.                                                  *)
(***************************************************************************)
Exec(o, k) == ex[o][k]
SetExec(o, k, e) == ex' = [ex EXCEPT ![o][k] = e]
\* an execution that has ended keeps its outcome and the record of what it
\* did to the row; its other locals are gone
Finished(e) ==
    [NewExec EXCEPT !.attempt = e.attempt, !.wrote = e.wrote, !.stale = e.stale,
                    !.sawHeld = e.sawHeld, !.leased = e.leased,
                    !.late = e.late]
Return(e, ok) ==
    [Finished(e) EXCEPT !.pc = "returned", !.result = IF ok THEN "ok" ELSE "fail"]
Throw(e, err) == [Finished(e) EXCEPT !.pc = "thrown", !.err = err]
Ended(e) == e.pc \in {"returned", "thrown"}
Live(e) == e.pc \notin {"none", "returned", "thrown", "crashed"}

\* `error instanceof LeaseHeldError`: thrown when the lease is held at
\* acquire ("LeaseHeld") and when a renewal finds the lease lost ("LeaseLost")
IsLeaseHeldError(err) == err \in {"LeaseHeld", "LeaseLost"}

(***************************************************************************)
(* Lease conditions (the `where` clauses of the conditional updates).      *)
(***************************************************************************)
\* `{ lt: leaseExpiry }` with leaseExpiry = now - LEASE_EXPIRY_MS; SQL NULL
\* compares to nothing
Expired(ts, t) == ts # NullTime /\ ts < t - LEASE_EXPIRY_MS

\* a lease condition without the expiry test
FileAcquirable_AnyInProgress(row, t) == row.status \in {"pending", "converting"}

\* convertFile: pending, OR converting with processingStartedAt < leaseExpiry
FileAcquirable(row, t) ==
    \/ row.status = "pending"
    \/ row.status = "converting" /\ Expired(row.startedAt, t)

\* baseConditions of the manual retry, for every caller
GuideAcquirable_AnyCaller(row, t, manual) ==
    \/ row.status \in {"pending", "needs_attention"}
    \/ /\ GuideInProgress(row.status)
       /\ \/ Expired(row.heartbeatAt, t)
          \/ row.heartbeatAt = NullTime /\ Expired(row.startedAt, t)

\* processGuideInternal baseConditions
GuideAcquirable(row, t, manual) ==
    \/ row.status = "pending"
    \/ manual /\ row.status = "needs_attention"
    \/ /\ GuideInProgress(row.status)
       /\ \/ Expired(row.heartbeatAt, t)
          \/ row.heartbeatAt = NullTime /\ Expired(row.startedAt, t)

\* a write conditioned on the id alone
HoldsLease_IdOnly(row, token) == TRUE

\* `where: { id, processingToken: token }`
HoldsLease(row, token) == row.token = token

(***************************************************************************)
(* convertFile                                                             *)
(***************************************************************************)
\* convertFile without the early return for a failed file
ConvertFileRead_NoFailureGuard(o, k) ==
    /\ OpKind(o) = "file"
    /\ Exec(o, k).pc = "start"
    /\ LET row == files[OpItem(o)]
           e == Exec(o, k)
       IN  SetExec(o, k,
              IF row.status = "converted" /\ row.content # "null" THEN Return(e, TRUE)
              ELSE [e EXCEPT !.pc = "acquire"])
    /\ UNCHANGED <<files, guides, run, host, route, wf, now, faults, orch>>

\* findUnique and the idempotency guard
ConvertFileRead(o, k) ==
    /\ OpKind(o) = "file"
    /\ Exec(o, k).pc = "start"
    /\ LET row == files[OpItem(o)]
           e == Exec(o, k)
       IN  SetExec(o, k,
              IF row.status = "converted" /\ row.content # "null" THEN Return(e, TRUE)
              ELSE IF row.status = "failed" THEN Return(e, FALSE)
              ELSE [e EXCEPT !.pc = "acquire"])
    /\ UNCHANGED <<files, guides, run, host, route, wf, now, faults, orch>>

\* the lease-acquiring updateMany
ConvertFileAcquire(o, k) ==
    /\ OpKind(o) = "file"
    /\ Exec(o, k).pc = "acquire"
    /\ LET f == OpItem(o)
           row == files[f]
           e == Exec(o, k)
       IN  IF FileAcquirable(row, now)
           THEN /\ files' = [files EXCEPT ![f] =
                       [row EXCEPT !.status = "converting",
                                   !.token = generateProcessingToken(o, k),
                                   !.startedAt = now]]
                /\ SetExec(o, k, [e EXCEPT !.pc = "convert", !.wrote = TRUE,
                                            !.leased = TRUE])
           ELSE /\ SetExec(o, k, [e EXCEPT !.pc = "reread", !.leased = TRUE,
                                            !.sawHeld = (row.status = "converting")])
                /\ UNCHANGED files
    /\ UNCHANGED <<guides, run, host, route, wf, now, faults, orch>>

\* count === 0: re-read, return the terminal outcome or throw LeaseHeldError
ConvertFileReread(o, k) ==
    /\ OpKind(o) = "file"
    /\ Exec(o, k).pc = "reread"
    /\ LET row == files[OpItem(o)]
           e == Exec(o, k)
       IN  SetExec(o, k,
              IF row.status = "converted" THEN Return(e, TRUE)
              ELSE IF row.status = "failed" THEN Return(e, FALSE)
              ELSE Throw(e, "LeaseHeld"))
    /\ UNCHANGED <<files, guides, run, host, route, wf, now, faults, orch>>

\* variant of ConvertFileFail: the write of `failed` without the token condition
ConvertFileFail_Unconditional(o, k) ==
    /\ OpKind(o) = "file"
    /\ Exec(o, k).pc = "convert"
    /\ LET f == OpItem(o)
           row == files[f]
           e == Exec(o, k)
           mine == HoldsLease(row, generateProcessingToken(o, k))
       IN  /\ files' = [files EXCEPT ![f] =
                               [row EXCEPT !.status = "failed", !.error = "conversion_failed",
                                           !.token = NullToken]]
           /\ SetExec(o, k, [Return(e, FALSE) EXCEPT !.stale = ~mine,
                                   !.late = FileTerminal(row.status)])
    /\ UNCHANGED <<guides, run, host, route, wf, now, faults, orch>>

\* shouldFail(): the token-conditioned write of `failed`
ConvertFileFail(o, k) ==
    /\ OpKind(o) = "file"
    /\ Exec(o, k).pc = "convert"
    /\ LET f == OpItem(o)
           row == files[f]
           e == Exec(o, k)
           mine == HoldsLease(row, generateProcessingToken(o, k))
       IN  /\ files' = IF mine
                       THEN [files EXCEPT ![f] =
                               [row EXCEPT !.status = "failed", !.error = "conversion_failed",
                                           !.token = NullToken]]
                       ELSE files
           /\ SetExec(o, k, [Return(e, FALSE) EXCEPT !.stale = ~mine,
                                   !.late = FileTerminal(row.status)])
    /\ UNCHANGED <<guides, run, host, route, wf, now, faults, orch>>

\* variant of ConvertFileFinalize: the write of `converted` without markdownContent
ConvertFileFinalize_NoContent(o, k) ==
    /\ OpKind(o) = "file"
    /\ Exec(o, k).pc = "convert"
    /\ LET f == OpItem(o)
           row == files[f]
           e == Exec(o, k)
           mine == HoldsLease(row, generateProcessingToken(o, k))
       IN  IF mine
           THEN /\ files' = [files EXCEPT ![f] =
                       [row EXCEPT !.status = "converted", !.token = NullToken]]
                /\ SetExec(o, k, Return(e, TRUE))
           ELSE /\ SetExec(o, k, [e EXCEPT !.pc = "finalReread", !.stale = TRUE,
                                           !.late = FileTerminal(row.status)])
                /\ UNCHANGED files
    /\ UNCHANGED <<guides, run, host, route, wf, now, faults, orch>>

\* the token-conditioned write of `converted`
ConvertFileFinalize(o, k) ==
    /\ OpKind(o) = "file"
    /\ Exec(o, k).pc = "convert"
    /\ LET f == OpItem(o)
           row == files[f]
           e == Exec(o, k)
           mine == HoldsLease(row, generateProcessingToken(o, k))
       IN  IF mine
           THEN /\ files' = [files EXCEPT ![f] =
                       [row EXCEPT !.status = "converted", !.content = "markdown",
                                   !.token = NullToken]]
                /\ SetExec(o, k, Return(e, TRUE))
           ELSE /\ SetExec(o, k, [e EXCEPT !.pc = "finalReread", !.stale = TRUE,
                                           !.late = FileTerminal(row.status)])
                /\ UNCHANGED files
    /\ UNCHANGED <<guides, run, host, route, wf, now, faults, orch>>

\* finalizeResult.count === 0: report the recorded status
ConvertFileFinalReread(o, k) ==
    /\ OpKind(o) = "file"
    /\ Exec(o, k).pc = "finalReread"
    /\ SetExec(o, k, Return(Exec(o, k), files[OpItem(o)].status = "converted"))
    /\ UNCHANGED <<files, guides, run, host, route, wf, now, faults, orch>>


(***************************************************************************)
(* processGuide / processGuideInternal                                     *)
(***************************************************************************)
\* `const attempt = guide.attempts + 1`, from the row read at the start
NextAttempt(row) == row.attempts + 1

\* the lease columns cleared by every release and finalize of a guide
Released(row) ==
    [row EXCEPT !.token = NullToken, !.startedAt = NullTime, !.heartbeatAt = NullTime]

\* updateMany `where: { id, processingToken: token }`
GuideWriteIfHeld(g, token, newRow) ==
    guides' = IF HoldsLease(guides[g], token)
              THEN [guides EXCEPT ![g] = newRow]
              ELSE guides

\* a catch that applies the attempt budget to every error
ProcessGuideCatch_NoExemption(e, err) ==
    IF e.attempt < ATTEMPT_BUDGET
    THEN Throw(e, err)
    ELSE [e EXCEPT !.pc = "cleanup1", !.err = err]

\* the catch block of processGuide: LeaseHeldError and errors with attempt
\* budget left are rethrown, the rest goes to the cleanup
ProcessGuideCatch(e, err) ==
    IF IsLeaseHeldError(err) \/ e.attempt < ATTEMPT_BUDGET
    THEN Throw(e, err)
    ELSE [e EXCEPT !.pc = "cleanup1", !.err = err]

\* degrading generation: full, reduced (2 sources), skeleton
GeneratedHtml(attempt) ==
    IF attempt = 1 THEN "full" ELSE IF attempt = 2 THEN "reduced" ELSE "skeleton"

\* processGuide without the early return for a completed guide
ProcessGuideRead_NoSuccessGuard(o, k) ==
    /\ OpKind(o) = "guide"
    /\ Exec(o, k).pc = "start"
    /\ LET row == guides[OpItem(o)]
           e == Exec(o, k)
       IN  SetExec(o, k,
              IF row.status = "needs_attention" /\ ~OpManual(o) THEN Return(e, FALSE)
              ELSE [e EXCEPT !.pc = "acquire", !.attempt = NextAttempt(row),
                             !.force = row.force, !.cached = (row.search = "some")])
    /\ UNCHANGED <<files, guides, run, host, route, wf, now, faults, orch>>

\* findUnique and the idempotency guard
ProcessGuideRead(o, k) ==
    /\ OpKind(o) = "guide"
    /\ Exec(o, k).pc = "start"
    /\ LET row == guides[OpItem(o)]
           e == Exec(o, k)
       IN  SetExec(o, k,
              IF row.status = "completed" /\ row.html # "null" THEN Return(e, TRUE)
              ELSE IF row.status = "needs_attention" /\ ~OpManual(o) THEN Return(e, FALSE)
              ELSE [e EXCEPT !.pc = "acquire", !.attempt = NextAttempt(row),
                             !.force = row.force, !.cached = (row.search = "some")])
    /\ UNCHANGED <<files, guides, run, host, route, wf, now, faults, orch>>

\* the lease-acquiring updateMany
GuideAcquire(o, k) ==
    /\ OpKind(o) = "guide"
    /\ Exec(o, k).pc = "acquire"
    /\ LET g == OpItem(o)
           row == guides[g]
           e == Exec(o, k)
           canReuseSearch == e.attempt > 1 /\ e.cached
       IN  IF GuideAcquirable(row, now, OpManual(o))
           THEN /\ guides' = [guides EXCEPT ![g] =
                       [row EXCEPT !.status = "searching", !.attempts = e.attempt,
                                   !.token = generateProcessingToken(o, k),
                                   !.startedAt = now, !.heartbeatAt = now,
                                   !.leases = @ + 1]]
                /\ SetExec(o, k,
                       [e EXCEPT !.pc = IF e.force THEN "force"
                                        ELSE IF canReuseSearch THEN "toGenerating"
                                        ELSE "search",
                                 !.reuse = ~e.force /\ canReuseSearch,
                                 !.lastRefresh = now, !.wrote = TRUE,
                                 !.leased = TRUE])
           ELSE /\ SetExec(o, k, [e EXCEPT !.pc = "reread", !.leased = TRUE,
                                            !.sawHeld = GuideInProgress(row.status)])
                /\ UNCHANGED guides
    /\ UNCHANGED <<files, run, host, route, wf, now, faults, orch>>

\* count === 0: re-read, return the terminal outcome or throw LeaseHeldError
GuideReread(o, k) ==
    /\ OpKind(o) = "guide"
    /\ Exec(o, k).pc = "reread"
    /\ LET row == guides[OpItem(o)]
           e == Exec(o, k)
       IN  SetExec(o, k,
              IF row.status = "completed" THEN Return(e, TRUE)
              ELSE IF row.status = "needs_attention" THEN Return(e, FALSE)
              ELSE ProcessGuideCatch(e, "LeaseHeld"))
    /\ UNCHANGED <<files, guides, run, host, route, wf, now, faults, orch>>

\* variant of RefreshLease: the heartbeat is renewed whatever token the row
\* carries
RefreshLease_Unconditional(o, k) ==
    /\ OpKind(o) = "guide"
    /\ Exec(o, k).pc \in {"force", "search", "generating"}
    /\ now - Exec(o, k).lastRefresh >= LEASE_REFRESH_INTERVAL_MS
    /\ guides' = [guides EXCEPT ![OpItem(o)] = [@ EXCEPT !.heartbeatAt = now]]
    /\ SetExec(o, k, [Exec(o, k) EXCEPT !.lastRefresh = now])
    /\ UNCHANGED <<files, run, host, route, wf, now, faults, orch>>

\* refreshLease, called by simulateLatency once LEASE_REFRESH_INTERVAL_MS
\* has passed since the last refresh
RefreshLease(o, k) ==
    /\ OpKind(o) = "guide"
    /\ Exec(o, k).pc \in {"force", "search", "generating"}
    /\ now - Exec(o, k).lastRefresh >= LEASE_REFRESH_INTERVAL_MS
    /\ LET g == OpItem(o)
           row == guides[g]
           e == Exec(o, k)
       IN  IF HoldsLease(row, generateProcessingToken(o, k))
           THEN /\ guides' = [guides EXCEPT ![g] = [row EXCEPT !.heartbeatAt = now]]
                /\ SetExec(o, k, [e EXCEPT !.lastRefresh = now])
           ELSE /\ SetExec(o, k,
                       IF e.pc = "force"
                       THEN ProcessGuideCatch([e EXCEPT !.stale = TRUE], "LeaseLost")
                       ELSE [e EXCEPT !.pc = IF e.pc = "search" THEN "searchCatch"
                                             ELSE "generateCatch",
                                      !.err = "LeaseLost", !.stale = TRUE])
                /\ UNCHANGED guides
    /\ UNCHANGED <<files, run, host, route, wf, now, faults, orch>>

\* variant of GuideForceFinalize: the write leaves searchResults as they are
GuideForceFinalize_KeepSearch(o, k) ==
    /\ OpKind(o) = "guide"
    /\ Exec(o, k).pc = "force"
    /\ LET g == OpItem(o)
           row == guides[g]
           e == Exec(o, k)
           token == generateProcessingToken(o, k)
       IN  /\ GuideWriteIfHeld(g, token,
                 [Released(row) EXCEPT !.status = "needs_attention",
                                       !.reason = "no_content", !.html = "skeleton"])
           /\ SetExec(o, k, [Return(e, FALSE) EXCEPT !.stale = ~HoldsLease(row, token)])
    /\ UNCHANGED <<files, run, host, route, wf, now, faults, orch>>

\* forceFailure: the token-conditioned write of needs_attention
GuideForceFinalize(o, k) ==
    /\ OpKind(o) = "guide"
    /\ Exec(o, k).pc = "force"
    /\ LET g == OpItem(o)
           row == guides[g]
           e == Exec(o, k)
           token == generateProcessingToken(o, k)
       IN  /\ GuideWriteIfHeld(g, token,
                 [Released(row) EXCEPT !.status = "needs_attention",
                                       !.reason = "no_content", !.search = "empty",
                                       !.html = "skeleton"])
           /\ SetExec(o, k, [Return(e, FALSE) EXCEPT !.stale = ~HoldsLease(row, token)])
    /\ UNCHANGED <<files, run, host, route, wf, now, faults, orch>>

\* mockSearch throws
GuideSearchThrow(o, k) ==
    /\ OpKind(o) = "guide"
    /\ Exec(o, k).pc = "search"
    /\ SetExec(o, k, [Exec(o, k) EXCEPT !.pc = "searchCatch", !.err = "Transient"])
    /\ UNCHANGED <<files, guides, run, host, route, wf, now, faults, orch>>

\* variant of GuideSearchCatch: with attempt budget left the error is
\* rethrown without the reset to pending
GuideSearchCatch_NoReset(o, k) ==
    /\ OpKind(o) = "guide"
    /\ Exec(o, k).pc = "searchCatch"
    /\ LET g == OpItem(o)
           row == guides[g]
           e == Exec(o, k)
           token == generateProcessingToken(o, k)
           marked == [e EXCEPT !.stale = e.stale \/ ~HoldsLease(row, token)]
       IN  IF e.attempt < ATTEMPT_BUDGET
           THEN /\ UNCHANGED guides
                /\ SetExec(o, k, ProcessGuideCatch(marked, e.err))
           ELSE /\ GuideWriteIfHeld(g, token,
                      [Released(row) EXCEPT !.status = "needs_attention",
                                            !.reason = "search_unavailable",
                                            !.details = "error"])
                /\ SetExec(o, k, Return(marked, FALSE))
    /\ UNCHANGED <<files, run, host, route, wf, now, faults, orch>>

\* the catch block around mockSearch
GuideSearchCatch(o, k) ==
    /\ OpKind(o) = "guide"
    /\ Exec(o, k).pc = "searchCatch"
    /\ LET g == OpItem(o)
           row == guides[g]
           e == Exec(o, k)
           token == generateProcessingToken(o, k)
           marked == [e EXCEPT !.stale = e.stale \/ ~HoldsLease(row, token)]
       IN  IF e.attempt < ATTEMPT_BUDGET
           THEN /\ GuideWriteIfHeld(g, token,
                      [Released(row) EXCEPT !.status = "pending", !.search = "empty",
                                            !.details = "lastError"])
                /\ SetExec(o, k, ProcessGuideCatch(marked, e.err))
           ELSE /\ GuideWriteIfHeld(g, token,
                      [Released(row) EXCEPT !.status = "needs_attention",
                                            !.reason = "search_unavailable",
                                            !.details = "error"])
                /\ SetExec(o, k, Return(marked, FALSE))
    /\ UNCHANGED <<files, run, host, route, wf, now, faults, orch>>

\* variant of GuideSearchEmpty: no results handled like a transient error
\* (reset to pending and rethrown while attempt budget is left)
GuideSearchEmpty_Retryable(o, k) ==
    /\ OpKind(o) = "guide"
    /\ Exec(o, k).pc = "search"
    /\ LET g == OpItem(o)
           row == guides[g]
           e == Exec(o, k)
           token == generateProcessingToken(o, k)
           marked == [e EXCEPT !.stale = ~HoldsLease(row, token)]
       IN  IF e.attempt < ATTEMPT_BUDGET
           THEN /\ GuideWriteIfHeld(g, token,
                      [Released(row) EXCEPT !.status = "pending", !.search = "empty"])
                /\ SetExec(o, k, Throw(marked, "Transient"))
           ELSE /\ GuideWriteIfHeld(g, token,
                      [Released(row) EXCEPT !.status = "needs_attention",
                                            !.reason = "no_content", !.search = "empty"])
                /\ SetExec(o, k, Return(marked, FALSE))
    /\ UNCHANGED <<files, run, host, route, wf, now, faults, orch>>

\* mockSearch returns [] (no results, or no converted file in the run)
GuideSearchEmpty(o, k) ==
    /\ OpKind(o) = "guide"
    /\ Exec(o, k).pc = "search"
    /\ LET g == OpItem(o)
           row == guides[g]
           e == Exec(o, k)
           token == generateProcessingToken(o, k)
       IN  /\ GuideWriteIfHeld(g, token,
                 [Released(row) EXCEPT !.status = "needs_attention",
                                       !.reason = "no_content", !.search = "empty"])
           /\ SetExec(o, k, [Return(e, FALSE) EXCEPT !.stale = ~HoldsLease(row, token)])
    /\ UNCHANGED <<files, run, host, route, wf, now, faults, orch>>

\* mockSearch returns snippets of converted files
GuideSearchFound(o, k) ==
    /\ OpKind(o) = "guide"
    /\ Exec(o, k).pc = "search"
    /\ \E f \in DOMAIN files : files[f].status = "converted"
    /\ SetExec(o, k, [Exec(o, k) EXCEPT !.pc = "toGenerating"])
    /\ UNCHANGED <<files, guides, run, host, route, wf, now, faults, orch>>

\* the token-conditioned transition to generating (its count is not read)
GuideToGenerating(o, k) ==
    /\ OpKind(o) = "guide"
    /\ Exec(o, k).pc = "toGenerating"
    /\ LET g == OpItem(o)
           row == guides[g]
           e == Exec(o, k)
           token == generateProcessingToken(o, k)
       IN  /\ GuideWriteIfHeld(g, token,
                 IF e.reuse THEN [row EXCEPT !.status = "generating"]
                 ELSE [row EXCEPT !.status = "generating", !.search = "some"])
           /\ SetExec(o, k, [e EXCEPT !.pc = "generating", !.lastRefresh = now,
                                      !.stale = ~HoldsLease(row, token)])
    /\ UNCHANGED <<files, run, host, route, wf, now, faults, orch>>

\* the generation step throws
GuideGenerateThrow(o, k) ==
    /\ OpKind(o) = "guide"
    /\ Exec(o, k).pc = "generating"
    /\ SetExec(o, k, [Exec(o, k) EXCEPT !.pc = "generateCatch", !.err = "Transient"])
    /\ UNCHANGED <<files, guides, run, host, route, wf, now, faults, orch>>

\* the catch block around generation
GuideGenerateCatch(o, k) ==
    /\ OpKind(o) = "guide"
    /\ Exec(o, k).pc = "generateCatch"
    /\ LET g == OpItem(o)
           row == guides[g]
           e == Exec(o, k)
           token == generateProcessingToken(o, k)
           marked == [e EXCEPT !.stale = e.stale \/ ~HoldsLease(row, token)]
       IN  IF e.attempt < ATTEMPT_BUDGET
           THEN /\ GuideWriteIfHeld(g, token,
                      [Released(row) EXCEPT !.status = "pending", !.details = "lastError"])
                /\ SetExec(o, k, ProcessGuideCatch(marked, e.err))
           ELSE /\ GuideWriteIfHeld(g, token,
                      [Released(row) EXCEPT !.status = "needs_attention",
                                            !.reason = "generation_failed",
                                            !.details = "error", !.html = "skeleton"])
                /\ SetExec(o, k, Return(marked, FALSE))
    /\ UNCHANGED <<files, run, host, route, wf, now, faults, orch>>

\* generation succeeded: the token-conditioned write of completed
GuideGenerateFinalize(o, k) ==
    /\ OpKind(o) = "guide"
    /\ Exec(o, k).pc = "generating"
    /\ LET g == OpItem(o)
           row == guides[g]
           e == Exec(o, k)
           token == generateProcessingToken(o, k)
       IN  /\ GuideWriteIfHeld(g, token,
                 [Released(row) EXCEPT !.status = "completed",
                                       !.html = GeneratedHtml(e.attempt)])
           /\ SetExec(o, k,
                 IF HoldsLease(row, token) THEN Return(e, TRUE)
                 ELSE [e EXCEPT !.pc = "finalReread", !.stale = TRUE])
    /\ UNCHANGED <<files, run, host, route, wf, now, faults, orch>>

\* finalizeResult.count === 0: report the recorded status
GuideFinalReread(o, k) ==
    /\ OpKind(o) = "guide"
    /\ Exec(o, k).pc = "finalReread"
    /\ SetExec(o, k, Return(Exec(o, k), guides[OpItem(o)].status = "completed"))
    /\ UNCHANGED <<files, guides, run, host, route, wf, now, faults, orch>>

\* the needs_attention data of the cleanup in processGuide's catch block
CleanupData(row) ==
    [Released(row) EXCEPT !.status = "needs_attention", !.reason = "unexpected",
                          !.details = "error", !.html = "skeleton"]

\* cleanup, first write: conditioned on the token
GuideCleanup1(o, k) ==
    /\ OpKind(o) = "guide"
    /\ Exec(o, k).pc = "cleanup1"
    /\ LET g == OpItem(o)
           row == guides[g]
           e == Exec(o, k)
           token == generateProcessingToken(o, k)
       IN  /\ GuideWriteIfHeld(g, token, CleanupData(row))
           /\ SetExec(o, k,
                 IF HoldsLease(row, token) THEN Return(e, FALSE)
                 ELSE [e EXCEPT !.pc = "cleanup2", !.stale = TRUE])
    /\ UNCHANGED <<files, run, host, route, wf, now, faults, orch>>

\* cleanup, second write conditioned on the id alone
GuideCleanup2_Unconditional(o, k) ==
    /\ OpKind(o) = "guide"
    /\ Exec(o, k).pc = "cleanup2"
    /\ LET g == OpItem(o)
           row == guides[g]
           e == Exec(o, k)
       IN  /\ guides' = [guides EXCEPT ![g] = CleanupData(row)]
           /\ SetExec(o, k, [Return(e, FALSE) EXCEPT !.wrote = TRUE])
    /\ UNCHANGED <<files, run, host, route, wf, now, faults, orch>>

\* cleanup, second write: only a lease-free in-progress guide
GuideCleanup2(o, k) ==
    /\ OpKind(o) = "guide"
    /\ Exec(o, k).pc = "cleanup2"
    /\ LET g == OpItem(o)
           row == guides[g]
           e == Exec(o, k)
           hit == row.token = NullToken
                  /\ row.status \in {"pending", "searching", "generating"}
       IN  /\ guides' = IF hit THEN [guides EXCEPT ![g] = CleanupData(row)] ELSE guides
           /\ SetExec(o, k, [Return(e, FALSE) EXCEPT !.wrote = e.wrote \/ hit])
    /\ UNCHANGED <<files, run, host, route, wf, now, faults, orch>>


\* a database call outside the inner try blocks rejects (the updateMany
\* before generation): the error reaches processGuide's catch block
GuideUnexpectedError(o, k) ==
    /\ OpKind(o) = "guide"
    /\ Exec(o, k).pc = "toGenerating"
    /\ SetExec(o, k, ProcessGuideCatch(Exec(o, k), "Unexpected"))
    /\ UNCHANGED <<files, guides, run, host, route, wf, now, faults, orch>>

(***************************************************************************)
(* The durable-execution host: activity retry policy, timeouts, crashes.   *)
(***************************************************************************)
\* stage 2 starts once the file activities have settled; a retry
\* workflow's activity starts once its workflow has been started
MayStart(o) ==
    IF o = "cf1" THEN TRUE
    ELSE IF o = "pg1" THEN host["cf1"].state \in {"completed", "failed"}
    ELSE wf[o].pc = "processGuide"

\* an ended execution whose outcome the host has taken: only its position
\* is kept (an execution the host gave up on is left as it is)
Reported(e) == IF Ended(e) THEN [NewExec EXCEPT !.pc = e.pc] ELSE e

\* retry: { maximumAttempts: 4 }: a failed attempt is retried while
\* attempts remain, whatever the error; then the activity fails
HostRetryOrFail(o, err) ==
    LET h == host[o]
    IN  IF h.cur < MAX_ATTEMPTS
        THEN /\ host' = [host EXCEPT ![o] = [h EXCEPT !.cur = h.cur + 1]]
             /\ ex' = [ex EXCEPT ![o][h.cur] = Reported(@),
                                 ![o][h.cur + 1] = [NewExec EXCEPT !.pc = "start"]]
        ELSE /\ host' = [host EXCEPT ![o] = [h EXCEPT !.state = "failed", !.err = err]]
             /\ ex' = [ex EXCEPT ![o][h.cur] = Reported(@)]

\* the workflow schedules the activity: first attempt
HostStart(o) ==
    /\ host[o].state = "idle"
    /\ MayStart(o)
    /\ host' = [host EXCEPT ![o] = [@ EXCEPT !.state = "running", !.cur = 1]]
    /\ ex' = [ex EXCEPT ![o][1] = [NewExec EXCEPT !.pc = "start"]]
    /\ UNCHANGED <<files, guides, run, route, wf, now, faults, orch>>

\* the current attempt has ended: complete the activity or retry it
HostObserve(o) ==
    /\ host[o].state = "running"
    /\ Ended(Exec(o, host[o].cur))
    /\ LET e == Exec(o, host[o].cur)
       IN  IF e.pc = "returned"
           THEN /\ host' = [host EXCEPT ![o] =
                       [@ EXCEPT !.state = "completed", !.result = e.result]]
                /\ ex' = [ex EXCEPT ![o][host[o].cur] = Reported(@)]
           ELSE HostRetryOrFail(o, e.err)
    /\ UNCHANGED <<files, guides, run, route, wf, now, faults, orch>>

\* heartbeat / start-to-close timeout of the current attempt: the host
\* gives the attempt up; the execution, if alive, keeps running
HostTimeout(o) ==
    /\ host[o].state = "running"
    /\ LET e == Exec(o, host[o].cur)
       IN  IF e.pc = "crashed"
           THEN UNCHANGED faults
           ELSE faults < MaxFaults /\ faults' = faults + 1
    /\ HostRetryOrFail(o, "Timeout")
    /\ UNCHANGED <<files, guides, run, route, wf, now, orch>>

\* the worker process running the current attempt dies
Crash(o) ==
    /\ host[o].state = "running"
    /\ Live(Exec(o, host[o].cur))
    /\ faults < MaxFaults
    /\ faults' = faults + 1
    /\ SetExec(o, host[o].cur, [Finished(Exec(o, host[o].cur)) EXCEPT !.pc = "crashed"])
    /\ UNCHANGED <<files, guides, run, host, route, wf, now, orch>>

\* some lease is stamped in the store, or some execution is inside the
\* latency simulation: the only readers of the clock
ClockObserved ==
    \/ \E f \in DOMAIN files : files[f].token # NullToken
    \/ \E g \in DOMAIN guides : guides[g].token # NullToken
    \/ \E o \in DOMAIN ex, k \in Attempts :
          Exec(o, k).pc \in {"convert", "force", "search", "generating"}

\* time passes (while nobody reads the clock its passing changes nothing)
Tick ==
    /\ now < MaxTicks * TickMs
    /\ ClockObserved
    /\ now' = now + TickMs
    /\ UNCHANGED <<files, guides, run, ex, host, route, wf, faults, orch>>

(***************************************************************************)
(* POST /api/guides/:guideId/retry and retryGuideWorkflow                  *)
(***************************************************************************)
\* the chunk workflows' activities have settled and none of their
\* executions is still running: the point from which the model lets the
\* user request a manual retry
MainPassQuiet ==
    \A o \in Ops \ Routes :
        /\ host[o].state \in {"completed", "failed"}
        /\ \A k \in Attempts : ~Live(Exec(o, k))

\* findUnique and the status check (any other status answers 400 and
\* changes nothing)
RouteCheck(r) ==
    /\ route[r] = "idle"
    /\ guides[OpItem(r)].status = "needs_attention"
    /\ route' = [route EXCEPT ![r] = "reset"]
    /\ UNCHANGED <<files, guides, run, ex, host, wf, now, faults, orch>>

\* db.guide.update: reset to pending, attempts kept
RouteResetGuide(r) ==
    /\ route[r] = "reset"
    /\ guides' = [guides EXCEPT ![OpItem(r)] =
           [@ EXCEPT !.status = "pending", !.reason = "null", !.details = "null",
                     !.search = "null", !.html = "null", !.force = FALSE]]
    /\ route' = [route EXCEPT ![r] = "run"]
    /\ UNCHANGED <<files, run, ex, host, wf, now, faults, orch>>

\* db.run.update: back to processing
RouteUpdateRun(r) ==
    /\ route[r] = "run"
    /\ run' = [run EXCEPT !.failedGuides = @ - 1, !.status = "processing",
                          !.stage = "writing_guides"]
    /\ route' = [route EXCEPT ![r] = "start"]
    /\ UNCHANGED <<files, guides, ex, host, wf, now, faults, orch>>

\* client.workflow.start('retryGuideWorkflow')
RouteStartWorkflow(r) ==
    /\ route[r] = "start"
    /\ route' = [route EXCEPT ![r] = "done"]
    /\ wf' = [wf EXCEPT ![r] = [@ EXCEPT !.pc = "processGuide"]]
    /\ UNCHANGED <<files, guides, run, ex, host, now, faults, orch>>

\* `await acts.processGuide(runId, guideId, true)` settles
RetryWorkflowAwait(w) ==
    /\ wf[w].pc = "processGuide"
    /\ host[w].state \in {"completed", "failed"}
    /\ wf' = [wf EXCEPT ![w] =
           [@ EXCEPT !.pc = IF host[w].state = "completed" THEN "refinalize" ELSE "failed"]]
    /\ UNCHANGED <<files, guides, run, ex, host, route, now, faults, orch>>

(***************************************************************************)
(* refinalizeRun                                                           *)
(***************************************************************************)
\* groupBy status, _count
CountStatus(S) == Cardinality({g \in DOMAIN guides : guides[g].status \in S})

\* a classification that looks at the pending count only
RunState_PendingOnly(pending, inProgress, needsAttention) ==
    IF pending > 0
    THEN [status |-> "processing", stage |-> "writing_guides"]
    ELSE IF needsAttention > 0
    THEN [status |-> "completed_with_errors", stage |-> "complete"]
    ELSE [status |-> "completed", stage |-> "complete"]

\* the status and stage derived from the counts
RunState(pending, inProgress, needsAttention) ==
    IF pending > 0 \/ inProgress > 0
    THEN [status |-> "processing", stage |-> "writing_guides"]
    ELSE IF needsAttention > 0
    THEN [status |-> "completed_with_errors", stage |-> "complete"]
    ELSE [status |-> "completed", stage |-> "complete"]

\* db.guide.groupBy
RefinalizeRead(w) ==
    /\ wf[w].pc = "refinalize"
    /\ wf' = [wf EXCEPT ![w] =
           [pc |-> "refinalizeWrite",
            completed |-> CountStatus({"completed"}),
            needsAttention |-> CountStatus({"needs_attention"}),
            pending |-> CountStatus({"pending"}),
            inProgress |-> CountStatus({"searching"}) + CountStatus({"generating"})]]
    /\ UNCHANGED <<files, guides, run, ex, host, route, now, faults, orch>>

\* an update that sets completedAt on completion and otherwise leaves it
RefinalizeWrite_KeepCompletedAt(w) ==
    /\ wf[w].pc = "refinalizeWrite"
    /\ LET c == wf[w]
           s == RunState(c.pending, c.inProgress, c.needsAttention)
       IN  run' = [run EXCEPT !.status = s.status, !.stage = s.stage,
                              !.completedGuides = c.completed,
                              !.failedGuides = c.needsAttention,
                              !.completedAt = IF s.stage = "complete" THEN now ELSE @]
    /\ wf' = [wf EXCEPT ![w] = [@ EXCEPT !.pc = "done"]]
    /\ UNCHANGED <<files, guides, ex, host, route, now, faults, orch>>

\* an update that adds the counts to the cached counters
RefinalizeWrite_Accumulate(w) ==
    /\ wf[w].pc = "refinalizeWrite"
    /\ LET c == wf[w]
           s == RunState(c.pending, c.inProgress, c.needsAttention)
       IN  run' = [run EXCEPT !.status = s.status, !.stage = s.stage,
                              !.completedGuides = @ + c.completed,
                              !.failedGuides = @ + c.needsAttention,
                              !.completedAt = IF s.stage = "complete" THEN now
                                              ELSE NullTime]
    /\ wf' = [wf EXCEPT ![w] = [@ EXCEPT !.pc = "done"]]
    /\ UNCHANGED <<files, guides, ex, host, route, now, faults, orch>>

\* db.run.update
RefinalizeWrite(w) ==
    /\ wf[w].pc = "refinalizeWrite"
    /\ LET c == wf[w]
           s == RunState(c.pending, c.inProgress, c.needsAttention)
       IN  run' = [run EXCEPT !.status = s.status, !.stage = s.stage,
                              !.completedGuides = c.completed,
                              !.failedGuides = c.needsAttention,
                              !.completedAt = IF s.stage = "complete" THEN now
                                              ELSE NullTime]
    /\ wf' = [wf EXCEPT ![w] = [@ EXCEPT !.pc = "done"]]
    /\ UNCHANGED <<files, guides, ex, host, route, now, faults, orch>>

(***************************************************************************)
(* Specifications.                                                         *)
(***************************************************************************)
Init ==
    /\ files = [f \in Files |-> NewFile]
    /\ guides \in [Guides -> {NewGuide(FALSE), NewGuide(TRUE)}]
    /\ run = NewRun(Cardinality(Files), Cardinality(Guides))
    /\ ex = [o \in Ops |-> [k \in Attempts |-> NewExec]]
    /\ host = [o \in Ops |-> NewHost]
    /\ route = [r \in Routes |-> "idle"]
    /\ wf = [r \in Routes |-> NewWf]
    /\ now = 0
    /\ faults = 0
    /\ orch = NoOrch

ExecStep(o, k) ==
    \/ ConvertFileRead(o, k)
    \/ ConvertFileAcquire(o, k)
    \/ ConvertFileReread(o, k)
    \/ ConvertFileFail(o, k)
    \/ ConvertFileFinalize(o, k)
    \/ ConvertFileFinalReread(o, k)
    \/ ProcessGuideRead(o, k)
    \/ GuideAcquire(o, k)
    \/ GuideReread(o, k)
    \/ RefreshLease(o, k)
    \/ GuideForceFinalize(o, k)
    \/ GuideSearchThrow(o, k)
    \/ GuideSearchCatch(o, k)
    \/ GuideSearchEmpty(o, k)
    \/ GuideSearchFound(o, k)
    \/ GuideToGenerating(o, k)
    \/ GuideUnexpectedError(o, k)
    \/ GuideGenerateThrow(o, k)
    \/ GuideGenerateCatch(o, k)
    \/ GuideGenerateFinalize(o, k)
    \/ GuideFinalReread(o, k)
    \/ GuideCleanup1(o, k)
    \/ GuideCleanup2(o, k)

HostStep(o) ==
    \/ HostStart(o)
    \/ HostObserve(o)
    \/ HostTimeout(o)
    \/ Crash(o)

\* a manual retry requested once the main pass is over
RouteCheckAfterMainPass(r) == MainPassQuiet /\ RouteCheck(r)

RetryStep(r) ==
    \/ RouteCheckAfterMainPass(r)
    \/ RouteResetGuide(r)
    \/ RouteUpdateRun(r)
    \/ RouteStartWorkflow(r)
    \/ RetryWorkflowAwait(r)
    \/ RefinalizeRead(r)
    \/ RefinalizeWrite(r)

Next ==
    \/ \E o \in Ops, k \in Attempts : ExecStep(o, k)
    \/ \E o \in Ops : HostStep(o)
    \/ \E r \in MainRoutes : RetryStep(r)
    \/ Tick

Spec == Init /\ [][Next]_vars


(***************************************************************************)
(* The reconciler alone: a retryGuideWorkflow about to run refinalizeRun   *)
(* over every distribution of guide statuses, with any cached counters.    *)
(***************************************************************************)
\* a guide row as the activities leave it in each status
GuideInStatus(s) ==
    CASE s = "pending" -> NewGuide(FALSE)
      [] s = "searching" ->
            [NewGuide(FALSE) EXCEPT !.status = s, !.attempts = 1,
                                    !.token = generateProcessingToken("pg1", 1),
                                    !.startedAt = 0, !.heartbeatAt = 0]
      [] s = "generating" ->
            [NewGuide(FALSE) EXCEPT !.status = s, !.attempts = 1,
                                    !.token = generateProcessingToken("pg1", 1),
                                    !.startedAt = 0, !.heartbeatAt = 0,
                                    !.search = "some"]
      [] s = "completed" ->
            [NewGuide(FALSE) EXCEPT !.status = s, !.attempts = 1,
                                    !.search = "some", !.html = "full"]
      [] s = "needs_attention" ->
            [NewGuide(FALSE) EXCEPT !.status = s, !.attempts = 1,
                                    !.search = "empty", !.reason = "no_content"]

GuideStatuses == {"pending", "searching", "generating", "completed", "needs_attention"}

InitReconcile ==
    /\ files = [f \in Files |-> [NewFile EXCEPT !.status = "converted",
                                                !.content = "markdown"]]
    /\ \E st \in [ReconcileGuides -> GuideStatuses] :
          guides = [g \in ReconcileGuides |-> GuideInStatus(st[g])]
    /\ \E c \in 0..Cardinality(ReconcileGuides), f \in 0..Cardinality(ReconcileGuides),
          t \in {NullTime, 0} :
          run = [NewRun(Cardinality(Files), Cardinality(ReconcileGuides))
                    EXCEPT !.stage = "writing_guides",
                           !.completedGuides = c, !.failedGuides = f,
                           !.completedAt = t]
    /\ ex = [o \in Ops |-> [k \in Attempts |-> NewExec]]
    /\ host = [o \in Ops |-> NewHost]
    /\ route = [r \in Routes |-> "done"]
    /\ wf = [r \in Routes |-> [NewWf EXCEPT !.pc = "refinalize"]]
    /\ now = 0
    /\ faults = 0
    /\ orch = NoOrch

NextReconcile == \E w \in Routes : RefinalizeRead(w) \/ RefinalizeWrite(w)

SpecReconcile == InitReconcile /\ [][NextReconcile]_vars


(***************************************************************************)
(* Vocabulary of the properties.                                           *)
(***************************************************************************)
Row(o) == IF OpKind(o) = "file" THEN files[OpItem(o)] ELSE guides[OpItem(o)]
RowNext(o) == IF OpKind(o) = "file" THEN files'[OpItem(o)] ELSE guides'[OpItem(o)]
RowInProgress(o, row) ==
    IF OpKind(o) = "file" THEN row.status = "converting" ELSE GuideInProgress(row.status)
RowTerminal(o, row) ==
    IF OpKind(o) = "file" THEN FileTerminal(row.status) ELSE GuideTerminal(row.status)
\* success-terminal with its output present
RowSucceeded(o, row) ==
    IF OpKind(o) = "file" THEN row.status = "converted" /\ row.content # "null"
    ELSE row.status = "completed" /\ row.html # "null"
\* the lease timestamp of an in-progress row is older than the threshold
LeaseExpired(o, row, t) ==
    IF OpKind(o) = "file" THEN row.startedAt # NullTime /\ t - row.startedAt > LEASE_EXPIRY_MS
    ELSE IF row.heartbeatAt # NullTime THEN t - row.heartbeatAt > LEASE_EXPIRY_MS
    ELSE row.startedAt # NullTime /\ t - row.startedAt > LEASE_EXPIRY_MS
\* the row is free for the execution's acquire, and for anybody's
LeaseFree(o, row, t) ==
    \/ row.status = "pending"
    \/ OpManual(o) /\ row.status = "needs_attention"
    \/ RowInProgress(o, row) /\ LeaseExpired(o, row, t)
LeaseFreeForAny(o, row, t) ==
    \/ row.status \in {"pending", "needs_attention"}
    \/ RowInProgress(o, row) /\ LeaseExpired(o, row, t)
\* positions of an execution after its acquire returned count = 1
Acquired(pc) ==
    pc \in {"convert", "force", "search", "searchCatch", "toGenerating", "generating",
            "generateCatch"}
Stepped(o, k) == ex'[o][k] # ex[o][k]
DbUnchanged == files' = files /\ guides' = guides /\ run' = run

(***************************************************************************)
(* C1: exclusive lease.                                                    *)
(***************************************************************************)
\* the acquire step: count = 1 exactly when the row satisfies the lease
\* condition; the row it leaves is stamped with the caller's token and no
\* second acquire at the same time can succeed on it
AcquireStep(o, k) ==
    Exec(o, k).pc = "acquire" /\ Exec(o, k)'.pc # "acquire" /\ Exec(o, k)'.pc # "crashed"
    => /\ Exec(o, k)'.pc = "reread" <=> ~LeaseFree(o, Row(o), now)
       /\ Exec(o, k)'.pc # "reread" =>
             /\ Acquired(Exec(o, k)'.pc)
             /\ RowNext(o).token = generateProcessingToken(o, k)
             /\ RowInProgress(o, RowNext(o))
             /\ ~LeaseFreeForAny(o, RowNext(o), now)
       /\ Exec(o, k)'.pc = "reread" => DbUnchanged

\* the re-read after count = 0: no write; the recorded terminal outcome is
\* returned, anything else raises LeaseHeldError
LoserStep(o, k) ==
    Exec(o, k).pc = "reread" /\ Exec(o, k)'.pc # "reread" /\ Exec(o, k)'.pc # "crashed"
    => /\ DbUnchanged
       /\ ~Exec(o, k)'.wrote
       /\ IF RowTerminal(o, Row(o))
          THEN /\ Exec(o, k)'.pc = "returned"
               /\ Exec(o, k)'.result = "ok" <=> Row(o).status \in {"converted", "completed"}
          ELSE Exec(o, k)'.pc = "thrown" /\ Exec(o, k)'.err = "LeaseHeld"

\* C1 as stated: a worker whose acquire returned count = 0 while the item
\* was in a non-expired in-progress status gets LeaseHeldError and writes
\* nothing
C1_LoserAlwaysSignalled ==
    [][\A o \in Ops, k \in Attempts :
          Exec(o, k).pc = "reread" /\ Exec(o, k).sawHeld /\ Ended(Exec(o, k)')
          => Exec(o, k)'.pc = "thrown" /\ Exec(o, k)'.err = "LeaseHeld" /\ DbUnchanged]_vars

\* C1 (amended): of two acquire steps run against the same item at the same
\* time exactly one sees count = 1; a worker whose acquire returns count = 0
\* writes nothing to the item and gets LeaseHeldError unless its re-read
\* finds the item terminal, in which case it returns the recorded outcome
C1_ExclusiveLease ==
    [][\A o \in Ops, k \in Attempts : AcquireStep(o, k) /\ LoserStep(o, k)]_vars

\* a worker lost the acquire to a holder and was signalled, having written
\* nothing, while the item is still held
C1_Witness ==
    \E o \in Ops, k \in Attempts :
        /\ Exec(o, k).pc = "thrown" /\ Exec(o, k).err = "LeaseHeld"
        /\ Exec(o, k).sawHeld /\ ~Exec(o, k).wrote
        /\ RowInProgress(o, Row(o)) /\ Row(o).token # NullToken


(***************************************************************************)
(* C2: lease takeover.                                                     *)
(***************************************************************************)
\* positions from which an execution issues a write conditioned on its token
HolderPcs ==
    {"convert", "finalReread", "force", "search", "searchCatch", "toGenerating",
     "generating", "generateCatch", "cleanup1"}

\* an acquire on an in-progress row whose lease timestamp is past the
\* threshold returns count = 1
TakeoverStep(o, k) ==
    /\ Exec(o, k).pc = "acquire" /\ Exec(o, k)'.pc \notin {"acquire", "crashed"}
    /\ RowInProgress(o, Row(o)) /\ LeaseExpired(o, Row(o), now)
    => Acquired(Exec(o, k)'.pc) /\ RowNext(o).token = generateProcessingToken(o, k)

\* any step of an execution that is past its acquire while the row carries
\* another token leaves the database as it was
StaleWriteStep(o, k) ==
    /\ Stepped(o, k) /\ Exec(o, k).pc \in HolderPcs
    /\ Row(o).token # generateProcessingToken(o, k)
    => DbUnchanged

\* C2: an in-progress item whose lease timestamp is older than 5 minutes is
\* acquired by a new worker, and from then on every token-conditioned write
\* of the original holder (finalize, reset to pending, transition to
\* generating, heartbeat renewal) leaves the row unchanged
C2_LeaseTakeover ==
    [][\A o \in Ops, k \in Attempts : TakeoverStep(o, k) /\ StaleWriteStep(o, k)]_vars

\* an original holder has attempted a write after a takeover: its write
\* found the lease gone and the row carries the new holder's token
C2_Witness ==
    \E o \in Ops, k \in Attempts :
        /\ Exec(o, k).stale /\ Exec(o, k).wrote
        /\ Row(o).token \notin {NullToken, generateProcessingToken(o, k)}
        /\ RowInProgress(o, Row(o))


(***************************************************************************)
(* C3: crash recovery.                                                     *)
(***************************************************************************)
\* the host schedules what it can: an activity that can take a step takes
\* it, a due retry is started, time passes
SpecFair == Spec /\ WF_vars(Next)

\* an execution that is not the policy's last attempt died holding the
\* lease that is still stamped on the in-progress row
HolderCrashed(o) ==
    /\ RowInProgress(o, Row(o))
    /\ \E k \in 1..(MAX_ATTEMPTS - 1) :
          /\ Exec(o, k).pc = "crashed"
          /\ Row(o).token = generateProcessingToken(o, k)

\* C3: when a worker crashes while holding the lease on an item, a later
\* attempt of the operation reclaims the lease and the item eventually
\* reaches a terminal status; it does not stay in progress forever
C3_CrashRecovery ==
    \A o \in Ops : [](HolderCrashed(o) => <>RowTerminal(o, Row(o)))

(***************************************************************************)
(* C4: idempotent re-execution.                                            *)
(***************************************************************************)
\* the first step of an invocation (its findUnique and guards)
Invoked(o, k) ==
    Exec(o, k).pc = "start" /\ Exec(o, k)'.pc \notin {"start", "crashed"}

\* C4: every invocation of convertFile on a converted file with content,
\* and of processGuide on a completed guide with content, returns
\* {success: true} and writes nothing
C4_IdempotentReexecution ==
    [][\A o \in Ops, k \in Attempts :
          Invoked(o, k) /\ RowSucceeded(o, Row(o))
          => /\ Exec(o, k)'.pc = "returned" /\ Exec(o, k)'.result = "ok"
             /\ ~Exec(o, k)'.leased /\ ~Exec(o, k)'.wrote
             /\ DbUnchanged]_vars

\* an invocation found its item already succeeded and returned success
\* from the guard
C4_Witness ==
    \E o \in Ops, k \in Attempts :
        /\ Exec(o, k).pc = "returned" /\ Exec(o, k).result = "ok"
        /\ ~Exec(o, k).leased
        /\ RowSucceeded(o, Row(o))

(***************************************************************************)
(* C5: failure-terminal short-circuit.                                     *)
(***************************************************************************)
RowFailed(o, row) ==
    IF OpKind(o) = "file" THEN row.status = "failed" ELSE row.status = "needs_attention"

\* C5: convertFile on a failed file, and processGuide without the manual
\* flag on a needs_attention guide, return {success: false} at once: no
\* lease is attempted and nothing is written
C5_FailureShortCircuit ==
    [][\A o \in Ops, k \in Attempts :
          Invoked(o, k) /\ RowFailed(o, Row(o)) /\ ~OpManual(o)
          => /\ Exec(o, k)'.pc = "returned" /\ Exec(o, k)'.result = "fail"
             /\ ~Exec(o, k)'.leased /\ ~Exec(o, k)'.wrote
             /\ DbUnchanged]_vars

\* an invocation found its item already failed and returned failure from
\* the guard
C5_Witness ==
    \E o \in Ops, k \in Attempts :
        /\ ~OpManual(o)
        /\ Exec(o, k).pc = "returned" /\ Exec(o, k).result = "fail"
        /\ ~Exec(o, k).leased
        /\ RowFailed(o, Row(o))


(***************************************************************************)
(* C6: attempt counting.                                                   *)
(***************************************************************************)
\* a successful lease acquisition on the guide (count = 1)
AcquiredLease(g) == guides'[g].leases = guides[g].leases + 1

\* C6: the stored attempts counter grows by exactly 1 at each successful
\* lease acquisition and changes at no other step, in every interleaving
\* of processGuide executions on the guide
C6_AttemptCounting ==
    [][\A g \in Guides :
          guides'[g].attempts =
              IF AcquiredLease(g) THEN guides[g].attempts + 1 ELSE guides[g].attempts]_vars

(***************************************************************************)
(* C7: budget ceiling.                                                     *)
(***************************************************************************)
\* C7: processGuide writes status pending only during the first two lease
\* acquisitions of a guide; from the third acquisition on the guide leaves
\* the in-progress statuses for a terminal status only
C7_BudgetCeiling ==
    [][\A g \in Guides :
          GuideInProgress(guides[g].status) /\ guides'[g].status = "pending"
          => guides[g].leases < ATTEMPT_BUDGET]_vars


(***************************************************************************)
(* C8: lease contention is exempt from the attempt budget.                 *)
(***************************************************************************)
\* the execution ends with the LeaseHeldError of a failed acquire
Contended(o, k) ==
    /\ Exec(o, k).pc # "thrown"
    /\ Exec(o, k)'.pc = "thrown" /\ Exec(o, k)'.err = "LeaseHeld"

\* C8: an execution that ends with the lease-contention signal has left
\* the item row (the attempts counter included) as it found it, and the
\* re-read of a row that is not terminal rethrows the contention, never
\* starting the needs_attention write, whatever the attempt number
C8_ContentionExempt ==
    [][\A o \in Ops, k \in Attempts :
          /\ Contended(o, k)
             => /\ Exec(o, k).pc = "reread"
                /\ ~Exec(o, k)'.wrote
                /\ DbUnchanged
          /\ /\ Exec(o, k).pc = "reread" /\ Exec(o, k)'.pc \notin {"reread", "crashed"}
             /\ ~RowTerminal(o, Row(o))
             => Contended(o, k)]_vars

\* contention met by an execution whose attempt number is at or past the
\* budget: it is rethrown and the guide is still in progress under the
\* holder's token
C8_Witness ==
    \E o \in Ops, k \in Attempts :
        /\ Exec(o, k).pc = "thrown" /\ Exec(o, k).err = "LeaseHeld"
        /\ Exec(o, k).attempt >= ATTEMPT_BUDGET
        /\ ~Exec(o, k).wrote
        /\ RowInProgress(o, Row(o))

(***************************************************************************)
(* C9: lease contention is retried without a cap.                          *)
(***************************************************************************)
\* C9: the host never gives up an operation because of lease contention:
\* no operation is failed (and so counted as failed by its chunk) with
\* LeaseHeldError as its last error
C9_ContentionAlwaysRetried ==
    \A o \in Ops : host[o].state = "failed" => host[o].err # "LeaseHeld"

(***************************************************************************)
(* C10: reconciler classification.                                         *)
(***************************************************************************)
\* the classification read off the guide rows themselves
Classification ==
    IF \E g \in DOMAIN guides : guides[g].status \in {"pending", "searching", "generating"}
    THEN <<"processing", "writing_guides">>
    ELSE IF \E g \in DOMAIN guides : guides[g].status = "needs_attention"
    THEN <<"completed_with_errors", "complete">>
    ELSE <<"completed", "complete">>

\* C10: for every distribution of guide statuses, after refinalizeRun the
\* run is processing / writing_guides if any guide is pending, searching
\* or generating; else completed_with_errors / complete if any guide is
\* needs_attention; else completed / complete
C10_ReconcilerClassification ==
    (\E w \in Routes : wf[w].pc = "done") => <<run.status, run.stage>> = Classification

\* refinalizeRun has run over guides that are all settled, one of them in
\* needs_attention
C10_Witness ==
    /\ \E w \in Routes : wf[w].pc = "done"
    /\ run.status = "completed_with_errors"
    /\ \E g \in DOMAIN guides : guides[g].status = "completed"

(***************************************************************************)
(* C11: reconciler counts.                                                 *)
(***************************************************************************)
\* the number of guide rows in a status, counted on the rows
GuidesIn(st) == Cardinality({g \in DOMAIN guides : guides[g].status = st})
RunTerminal(st) == st \in {"completed", "completed_with_errors", "failed"}

\* C11: after refinalizeRun the cached completedGuides is the number of
\* completed guides and failedGuides the number of needs_attention guides,
\* whatever the counters held before, and completedAt is a timestamp
\* exactly when the resulting run status is terminal, null otherwise
C11_ReconcilerCounts ==
    (\E w \in Routes : wf[w].pc = "done")
    => /\ run.completedGuides = GuidesIn("completed")
       /\ run.failedGuides = GuidesIn("needs_attention")
       /\ run.completedAt # NullTime <=> RunTerminal(run.status)

\* refinalizeRun has replaced cached counters and cleared the completion
\* time of a run that still has a guide to process
C11_Witness ==
    /\ \E w \in Routes : wf[w].pc = "done"
    /\ run.status = "processing" /\ run.completedAt = NullTime
    /\ run.completedGuides = 1 /\ run.failedGuides = 1

(***************************************************************************)
(* C12: reconciliation idempotence.                                        *)
(***************************************************************************)
\* the update of a refinalizeRun that runs after another one has finished
SecondRefinalize(w) ==
    /\ wf[w].pc = "refinalizeWrite" /\ wf'[w].pc = "done"
    /\ \E v \in Routes \ {w} : wf[v].pc = "done"

\* C12: a second refinalizeRun, with no guide changed since the first,
\* leaves the run's status, stage, completedGuides and failedGuides as the
\* first left them
C12_ReconcileIdempotent ==
    [][\A w \in Routes :
          SecondRefinalize(w)
          => /\ run'.status = run.status /\ run'.stage = run.stage
             /\ run'.completedGuides = run.completedGuides
             /\ run'.failedGuides = run.failedGuides]_vars

\* two reconciliations have run over guides some of which are completed
\* and some in needs_attention
C12_Witness ==
    /\ \A w \in Routes : wf[w].pc = "done"
    /\ run.completedGuides > 0 /\ run.failedGuides > 0

(***************************************************************************)
(* C13: run lifecycle.                                                     *)
(***************************************************************************)
\* C13: whenever the run's status is completed or completed_with_errors,
\* every file of the run is converted or failed and every guide is
\* completed or needs_attention
C13_RunLifecycle ==
    run.status \in {"completed", "completed_with_errors"}
    => /\ \A f \in DOMAIN files : FileTerminal(files[f].status)
       /\ \A g \in DOMAIN guides : GuideTerminal(guides[g].status)

(***************************************************************************)
(* guideGenerationWorkflow: chunking, throttled dispatch of the chunk      *)
(* sub-executions, the two stages and the end of the run.  A chunk         *)
(* sub-execution is one unit that settles fulfilled or rejected; of the    *)
(* run's items the rows of the first file and the first guide are kept.    *)
(***************************************************************************)
CHUNK_SIZE == 100
MAX_CONCURRENT_CHILDREN == 10

\* the largest ID list of a run
MaxItems == 1001

\* the lengths of the runs' ID lists
ItemCounts == {0, 2 * CHUNK_SIZE + CHUNK_SIZE \div 2, MaxItems}

Min(a, b) == IF a < b THEN a ELSE b

\* array.slice(from, to) on 0-based indices, `to` clamped to the length
Slice(array, from, to) == SubSeq(array, from + 1, Min(to, Len(array)))

\* the loop of chunkArray from index i on
RECURSIVE ChunkFrom(_, _, _)
ChunkFrom(array, size, i) ==
    IF i < Len(array)
    THEN <<Slice(array, i, i + size)>> \o ChunkFrom(array, size, i + size)
    ELSE <<>>

\* a chunking that keeps the full chunks only
chunkArray_DropRemainder(array, size) ==
    SelectSeq(ChunkFrom(array, size, 0), LAMBDA chunk : Len(chunk) = size)

chunkArray(array, size) == ChunkFrom(array, size, 0)

\* the IDs of n items
IdList(n) == [i \in 1..n |-> i]

NewOrch ==
    [pc |-> "start", phase |-> "file", i |-> 0,
     fileChunks |-> <<>>, guideChunks |-> <<>>]

\* one sub-execution per chunk, not yet started
Children(ids) == [c \in 1..Len(chunkArray(ids, CHUNK_SIZE)) |-> "idle"]

Chunks(phase) == IF phase = "file" THEN orch.fileChunks ELSE orch.guideChunks
WithChunks(o, phase, v) ==
    IF phase = "file" THEN [o EXCEPT !.fileChunks = v] ELSE [o EXCEPT !.guideChunks = v]
Settled(c) == c \in {"fulfilled", "rejected"}

\* a batch that takes every remaining task
Batch_Unthrottled(tasks, i, maxConcurrent) == (i + 1)..Len(tasks)

\* tasks.slice(i, i + maxConcurrent), as 1-based positions
Batch(tasks, i, maxConcurrent) == (i + 1)..Min(i + maxConcurrent, Len(tasks))

\* rows a chunk's activities leave
FileInStatus(s) ==
    IF s = "converted" THEN [NewFile EXCEPT !.status = s, !.content = "markdown"]
    ELSE [NewFile EXCEPT !.status = s, !.error = "conversion_failed"]

\* stage 1 begins: updateRunStage(converting_documents), chunkArray(fileIds)
OrchStart ==
    /\ orch.pc = "start"
    /\ run' = [run EXCEPT !.stage = "converting_documents"]
    /\ orch' = [orch EXCEPT !.pc = "batch", !.phase = "file", !.i = 0,
                            !.fileChunks = Children(IdList(run.totalFiles))]
    /\ UNCHANGED <<files, guides, ex, host, route, wf, now, faults>>

\* executeChildrenThrottled: batch.map((fn) => fn()) starts the batch
DispatchBatch ==
    /\ orch.pc = "batch"
    /\ orch.i < Len(Chunks(orch.phase))
    /\ LET tasks == Chunks(orch.phase)
           batch == Batch(tasks, orch.i, MAX_CONCURRENT_CHILDREN)
       IN  orch' = [WithChunks(orch, orch.phase,
                       [c \in DOMAIN tasks |-> IF c \in batch THEN "running" ELSE tasks[c]])
                    EXCEPT !.pc = "await"]
    /\ UNCHANGED <<files, guides, run, ex, host, route, wf, now, faults>>

\* a chunk sub-execution ends; the first chunk holds the first item
ChildSettle(phase, c, fulfilled) ==
    /\ c \in DOMAIN Chunks(phase)
    /\ Chunks(phase)[c] = "running"
    /\ orch' = WithChunks(orch, phase,
                   [Chunks(phase) EXCEPT ![c] = IF fulfilled THEN "fulfilled" ELSE "rejected"])
    /\ IF fulfilled /\ c = 1 /\ phase = "file"
       THEN /\ \E s \in {"converted", "failed"} :
                 files' = [f \in DOMAIN files |-> FileInStatus(s)]
            /\ UNCHANGED guides
       ELSE IF fulfilled /\ c = 1 /\ phase = "guide"
       THEN /\ \E s \in {"completed", "needs_attention"} :
                 guides' = [g \in DOMAIN guides |-> GuideInStatus(s)]
            /\ UNCHANGED files
       ELSE UNCHANGED <<files, guides>>
    /\ UNCHANGED <<run, ex, host, route, wf, now, faults>>

\* a wait that ends with the first sub-execution to settle
BatchSettled_First ==
    /\ orch.pc = "await"
    /\ \E c \in Batch(Chunks(orch.phase), orch.i, MAX_CONCURRENT_CHILDREN) :
          Settled(Chunks(orch.phase)[c])
    /\ orch' = [orch EXCEPT !.pc = "batch", !.i = @ + MAX_CONCURRENT_CHILDREN]
    /\ UNCHANGED <<files, guides, run, ex, host, route, wf, now, faults>>

\* await Promise.allSettled(batch): every sub-execution of the batch settled
BatchSettled ==
    /\ orch.pc = "await"
    /\ \A c \in Batch(Chunks(orch.phase), orch.i, MAX_CONCURRENT_CHILDREN) :
          Settled(Chunks(orch.phase)[c])
    /\ orch' = [orch EXCEPT !.pc = "batch", !.i = @ + MAX_CONCURRENT_CHILDREN]
    /\ UNCHANGED <<files, guides, run, ex, host, route, wf, now, faults>>

Failures(results) == Cardinality({c \in DOMAIN results : results[c] = "rejected"})

\* markRunFailed(runId, `${n} ... chunk(s) failed unexpectedly`)
MarkRunFailed(kind, n) ==
    run' = [run EXCEPT !.status = "failed", !.stage = "complete",
                       !.errorMessage = [failed |-> n, chunks |-> kind],
                       !.completedAt = now]

\* file results that read a rejected chunk as zero conversions
FileResults_IgnoreRejected ==
    /\ orch.pc = "batch" /\ orch.phase = "file"
    /\ orch.i >= Len(orch.fileChunks)
    /\ run' = [run EXCEPT !.stage = "writing_guides"]
    /\ orch' = [orch EXCEPT !.phase = "guide", !.i = 0,
                            !.guideChunks = Children(IdList(run.totalGuides))]
    /\ UNCHANGED <<files, guides, ex, host, route, wf, now, faults>>

\* the file results are in: mark the run failed, or begin stage 2 with
\* updateRunStage(writing_guides) and chunkArray(guideIds)
FileResults ==
    /\ orch.pc = "batch" /\ orch.phase = "file"
    /\ orch.i >= Len(orch.fileChunks)
    /\ LET fileChunkFailures == Failures(orch.fileChunks)
       IN  IF fileChunkFailures > 0
           THEN /\ MarkRunFailed("file", fileChunkFailures)
                /\ orch' = [orch EXCEPT !.pc = "done"]
           ELSE /\ run' = [run EXCEPT !.stage = "writing_guides"]
                /\ orch' = [orch EXCEPT !.phase = "guide", !.i = 0,
                                        !.guideChunks = Children(IdList(run.totalGuides))]
    /\ UNCHANGED <<files, guides, ex, host, route, wf, now, faults>>

\* the guide results are in: mark the run failed, or go on to refinalizeRun
GuideResults ==
    /\ orch.pc = "batch" /\ orch.phase = "guide"
    /\ orch.i >= Len(orch.guideChunks)
    /\ LET guideChunkFailures == Failures(orch.guideChunks)
       IN  IF guideChunkFailures > 0
           THEN /\ MarkRunFailed("guide", guideChunkFailures)
                /\ orch' = [orch EXCEPT !.pc = "done"]
                /\ UNCHANGED wf
           ELSE /\ orch' = [orch EXCEPT !.pc = "refinalize"]
                /\ wf' = [wf EXCEPT !["main"].pc = "refinalize"]
                /\ UNCHANGED run
    /\ UNCHANGED <<files, guides, ex, host, route, now, faults>>

\* refinalizeRun has returned: the workflow ends
OrchComplete ==
    /\ orch.pc = "refinalize"
    /\ wf["main"].pc = "done"
    /\ orch' = [orch EXCEPT !.pc = "done"]
    /\ UNCHANGED <<files, guides, run, ex, host, route, wf, now, faults>>

\* a run as POST /api/runs leaves it, for each pair of list lengths
InitOrchestrator ==
    /\ \E nFiles \in ItemCounts, nGuides \in ItemCounts :
          /\ run = NewRun(nFiles, nGuides)
          /\ files = [f \in IF nFiles > 0 THEN Files ELSE {} |-> NewFile]
          /\ guides = [g \in IF nGuides > 0 THEN Guides ELSE {} |-> NewGuide(FALSE)]
    /\ ex = [o \in Ops |-> [k \in Attempts |-> NewExec]]
    /\ host = [o \in Ops |-> NewHost]
    /\ route = [r \in Routes |-> "idle"]
    /\ wf = [w \in {"main"} |-> NewWf]
    /\ now = 0
    /\ faults = 0
    /\ orch = NewOrch

NextOrchestrator ==
    \/ OrchStart
    \/ DispatchBatch
    \/ \E phase \in {"file", "guide"}, c \in 1..(MaxItems \div CHUNK_SIZE + 1),
          fulfilled \in BOOLEAN : ChildSettle(phase, c, fulfilled)
    \/ BatchSettled
    \/ FileResults
    \/ GuideResults
    \/ RefinalizeRead("main")
    \/ RefinalizeWrite("main")
    \/ OrchComplete

SpecOrchestrator == InitOrchestrator /\ [][NextOrchestrator]_vars

(***************************************************************************)
(* C14: two-stage sequencing.                                              *)
(***************************************************************************)
Started(c) == c # "idle"

\* C14: while a file chunk sub-execution has not settled, no guide chunk
\* sub-execution has been dispatched and no guide of the run has been
\* touched by processGuide
C14_TwoStageSequencing ==
    (\E c \in DOMAIN orch.fileChunks : ~Settled(orch.fileChunks[c]))
    => /\ \A c \in DOMAIN orch.guideChunks : ~Started(orch.guideChunks[c])
       /\ \A g \in DOMAIN guides : guides[g].status = "pending"

\* a guide chunk is in flight after two dispatch batches of file chunks
\* have settled
C14_Witness ==
    /\ Len(orch.fileChunks) > MAX_CONCURRENT_CHILDREN
    /\ \A c \in DOMAIN orch.fileChunks : Settled(orch.fileChunks[c])
    /\ \E c \in DOMAIN orch.guideChunks : orch.guideChunks[c] = "running"

(***************************************************************************)
(* C15: a rejected chunk sub-execution is fatal to the run.                *)
(***************************************************************************)
Rejected(results) == \E c \in DOMAIN results : results[c] = "rejected"

\* the run as markRunFailed leaves it, naming n failed chunks of a kind
RunMarkedFailed(kind, n) ==
    /\ run.status = "failed" /\ run.stage = "complete"
    /\ run.errorMessage = [failed |-> n, chunks |-> kind]
    /\ run.completedAt # NullTime

\* C15: once a file chunk has rejected no guide chunk is dispatched, and
\* once any chunk has rejected the final reconciliation never runs; the
\* workflow ends with the run marked failed (status failed, stage complete,
\* a message naming the number of failed chunks, completedAt set)
C15_SubExecutionFatal ==
    /\ Rejected(orch.fileChunks)
       => /\ \A c \in DOMAIN orch.guideChunks : ~Started(orch.guideChunks[c])
          /\ wf["main"].pc = "none"
          /\ orch.pc = "done" => RunMarkedFailed("file", Failures(orch.fileChunks))
    /\ Rejected(orch.guideChunks)
       => /\ wf["main"].pc = "none"
          /\ orch.pc = "done" => RunMarkedFailed("guide", Failures(orch.guideChunks))

\* the workflow has ended after file chunks of the second dispatch batch
\* and of the first rejected
C15_Witness ==
    /\ orch.pc = "done"
    /\ Failures(orch.fileChunks) > 1
    /\ orch.fileChunks[Len(orch.fileChunks)] = "rejected"
    /\ run.status = "failed"

(***************************************************************************)
(* C16: chunk throttle.                                                    *)
(***************************************************************************)
InFlight(results) == Cardinality({c \in DOMAIN results : results[c] = "running"})

\* the dispatch batch of the c-th task
BatchOf(c) == (c - 1) \div MAX_CONCURRENT_CHILDREN

BatchesInOrder(results) ==
    \A c, d \in DOMAIN results :
        Started(results[c]) /\ BatchOf(d) < BatchOf(c) => Settled(results[d])

\* C16: at most MAX_CONCURRENT_CHILDREN chunk sub-executions of the run
\* are in flight, and a sub-execution of a later dispatch batch has been
\* started only if every sub-execution of the earlier batches has settled
C16_ChunkThrottle ==
    /\ InFlight(orch.fileChunks) + InFlight(orch.guideChunks) <= MAX_CONCURRENT_CHILDREN
    /\ BatchesInOrder(orch.fileChunks)
    /\ BatchesInOrder(orch.guideChunks)

\* the eleventh guide chunk is in flight, the first ten having settled
C16_Witness ==
    /\ Len(orch.guideChunks) > MAX_CONCURRENT_CHILDREN
    /\ orch.guideChunks[MAX_CONCURRENT_CHILDREN + 1] = "running"

(***************************************************************************)
(* chunkArray on its own: every short ID list and chunk size, and the      *)
(* 250-ID list at the size the workflow uses.                              *)
(***************************************************************************)
MaxLen == 4
MaxSize == 5

\* ID lists of up to MaxLen items (an ID may repeat) at every size up to
\* MaxSize and at the workflow's, and 250 IDs at the workflow's size and at
\* sizes around the length of the list
ShortLists == UNION {[1..n -> {1, 2}] : n \in 0..MaxLen}
LongList == IdList(2 * CHUNK_SIZE + CHUNK_SIZE \div 2)
ChunkInputs ==
    (ShortLists \X ((1..MaxSize) \cup {CHUNK_SIZE}))
        \cup ({LongList} \X {CHUNK_SIZE, Len(LongList) - 1, Len(LongList), Len(LongList) + 1})

InitChunk ==
    /\ \E input \in ChunkInputs :
          orch = [pc |-> "call", array |-> input[1], size |-> input[2], chunks |-> <<>>]
    /\ files = [f \in Files |-> NewFile]
    /\ guides = [g \in Guides |-> NewGuide(FALSE)]
    /\ run = NewRun(Cardinality(Files), Cardinality(Guides))
    /\ ex = [o \in Ops |-> [k \in Attempts |-> NewExec]]
    /\ host = [o \in Ops |-> NewHost]
    /\ route = [r \in Routes |-> "idle"]
    /\ wf = [r \in Routes |-> NewWf]
    /\ now = 0
    /\ faults = 0

\* const chunks = chunkArray(ids, size)
ChunkArrayCall ==
    /\ orch.pc = "call"
    /\ orch' = [orch EXCEPT !.pc = "returned", !.chunks = chunkArray(orch.array, orch.size)]
    /\ UNCHANGED <<files, guides, run, ex, host, route, wf, now, faults>>

NextChunk == ChunkArrayCall

SpecChunk == InitChunk /\ [][NextChunk]_vars

(***************************************************************************)
(* C17: chunking.                                                          *)
(***************************************************************************)
CeilDiv(n, s) == (n + s - 1) \div s

RECURSIVE Concat(_)
Concat(seqs) == IF seqs = <<>> THEN <<>> ELSE Head(seqs) \o Concat(Tail(seqs))

\* C17: chunkArray returns ceil(n/s) chunks (none for an empty list), each
\* but the last of exactly s items, the last of 1 to s items, and the
\* chunks concatenated in order are the original list; 250 IDs at size 100
\* give chunks of 100, 100 and 50
C17_Chunking ==
    orch.pc = "returned"
    => LET n == Len(orch.array)
           s == orch.size
           chunks == orch.chunks
       IN  /\ Len(chunks) = CeilDiv(n, s)
           /\ \A k \in 1..(Len(chunks) - 1) : Len(chunks[k]) = s
           /\ Len(chunks) > 0 => Len(chunks[Len(chunks)]) \in 1..s
           /\ Concat(chunks) = orch.array
           /\ n = 250 /\ s = 100
              => [k \in DOMAIN chunks |-> Len(chunks[k])] = <<100, 100, 50>>

\* the 250-ID list has been chunked at the workflow's chunk size
C17_Witness ==
    /\ orch.pc = "returned"
    /\ Len(orch.array) = 250 /\ orch.size = CHUNK_SIZE
    /\ Len(orch.chunks) = 3


(***************************************************************************)
(* C18: guide content invariant.                                           *)
(***************************************************************************)
\* C18: in every reachable state a guide's generated content (htmlContent)
\* is non-null if and only if the guide's status is completed.
C18_GuideContent ==
    \A g \in Guides : (guides[g].html # "null") <=> (guides[g].status = "completed")

(***************************************************************************)
(* C19: file content invariant.                                            *)
(***************************************************************************)
\* C19: in every reachable state a file's extracted content
\* (markdownContent) is non-null if and only if the file's status is
\* converted.
C19_FileContent ==
    \A f \in Files : (files[f].content # "null") <=> (files[f].status = "converted")

\* a convertFile execution has written `converted` with its markdown, and
\* the row carries the content
C19_Witness ==
    \E f \in Files :
        /\ files[f].status = "converted"
        /\ files[f].content = "markdown"
        /\ \E o \in Ops, k \in Attempts :
               OpKind(o) = "file" /\ OpItem(o) = f /\ Exec(o, k).wrote

(***************************************************************************)
(* C20: file terminal states are absorbing.                                *)
(***************************************************************************)
\* the status changes the writes of convertFile make (acquire, finalize,
\* failure)
FileStatusTransitions ==
    {<<"pending", "converting">>, <<"converting", "converted">>,
     <<"converting", "failed">>}

\* C20: once a file is converted or failed no step (a retried or duplicate
\* convertFile, a late finalize of a stale holder, a takeover attempt)
\* changes its status, content, error message, token or lease timestamp;
\* and a file's status changes only pending -> converting,
\* converting -> converted, converting -> failed
C20_FileTerminalAbsorbing ==
    [][\A f \in Files :
          /\ FileTerminal(files[f].status) => files'[f] = files[f]
          /\ files'[f].status # files[f].status
             => <<files[f].status, files'[f].status>> \in FileStatusTransitions]_vars

\* a holder that lost its lease to a takeover has issued its finalize after
\* the new holder made the file terminal: the write matched no row
C20_Witness ==
    \E f \in Files :
        /\ FileTerminal(files[f].status)
        /\ \E o \in Ops, k \in Attempts :
               /\ OpKind(o) = "file" /\ OpItem(o) = f
               /\ Exec(o, k).wrote /\ Exec(o, k).stale /\ Exec(o, k).late

(***************************************************************************)
(* C21: degrading retry, third attempt.                                    *)
(***************************************************************************)
\* the execution (o, k) holds the guide's lease and gives it up in this step
EndsAcquisition(o, k) ==
    /\ OpKind(o) = "guide"
    /\ Stepped(o, k)
    /\ Row(o).token = generateProcessingToken(o, k)
    /\ RowNext(o).token = NullToken

\* C21: an acquisition of a guide at attempt number 3 or higher ends with
\* the guide in needs_attention, carrying skeleton content and a failure
\* reason; it never ends with the guide completed
C21_ThirdAttemptSkeleton ==
    [][\A o \in Ops, k \in Attempts :
          EndsAcquisition(o, k) /\ Exec(o, k).attempt >= ATTEMPT_BUDGET
          => /\ RowNext(o).status = "needs_attention"
             /\ RowNext(o).html = "skeleton"
             /\ RowNext(o).reason # "null"]_vars

(***************************************************************************)
(* C22: business failure is immediately terminal.                          *)
(***************************************************************************)
\* the lease holder (o, k) leaves the search step with no results, or
\* leaves the forced-failure branch: the outcomes of pc "search" other than
\* an exception (searchCatch), results (toGenerating) and the death of the
\* worker (crashed)
BusinessFailureStep(o, k) ==
    /\ OpKind(o) = "guide"
    /\ Exec(o, k).pc \in {"search", "force"}
    /\ Row(o).token = generateProcessingToken(o, k)
    /\ ex'[o][k].pc \notin {Exec(o, k).pc, "searchCatch", "toGenerating", "crashed"}

\* the host schedules a further attempt of the activity, not because of a
\* timeout
HostRetries(o) ==
    /\ host[o].state = "running"
    /\ host'[o].cur = host[o].cur + 1
    /\ faults' = faults

\* C22: a search without results and a forced failure make the lease
\* holder write needs_attention and return {success: false} without
\* raising, at every attempt number; the guide is not reset to pending, and
\* the host starts a further attempt only after an attempt that raised or
\* crashed, never after one that returned
C22_BusinessFailureTerminal ==
    [][/\ \A o \in Ops, k \in Attempts :
             BusinessFailureStep(o, k)
             => /\ ex'[o][k].pc = "returned" /\ ex'[o][k].result = "fail"
                /\ RowNext(o).status = "needs_attention"
                /\ RowNext(o).reason # "null"
                /\ RowNext(o).token = NullToken
       /\ \A o \in Ops :
             HostRetries(o) => Exec(o, host[o].cur).pc \in {"thrown", "crashed"}]_vars

\* a first attempt found no results: it returned failure and left the
\* guide in needs_attention, and the host completed the activity without a
\* second attempt
C22_Witness ==
    \E o \in Ops :
        /\ OpKind(o) = "guide" /\ ~OpManual(o)
        /\ host[o].state = "completed" /\ host[o].cur = 1
        /\ host[o].result = "fail"
        /\ Row(o).status = "needs_attention"
        /\ Row(o).reason = "no_content"
        /\ Row(o).html = "null"
        /\ Row(o).attempts = 1

(***************************************************************************)
(* C23: failures at or beyond the attempt budget are absorbed.             *)
(***************************************************************************)
\* the execution (o, k), at attempt number >= 3, is handling an error that
\* is not lease contention: in a catch block of processGuideInternal or in
\* the cleanup of processGuide
HandlesErrorAtBudget(o, k) ==
    /\ OpKind(o) = "guide"
    /\ Exec(o, k).attempt >= ATTEMPT_BUDGET
    /\ Exec(o, k).pc \in {"searchCatch", "generateCatch", "cleanup1", "cleanup2"}
    /\ ~IsLeaseHeldError(Exec(o, k).err)

\* C23: an execution handling a non-contention error at attempt number
\* >= 3 never raises, and when it returns it returns {success: false} and
\* the guide is in a terminal status (needs_attention or completed), not
\* left in pending, searching or generating.  (A guide that is in progress
\* under the lease of another execution at that moment is let through
\* here: that holder still owes the guide its terminal write.)
C23_AbsorbedTerminal ==
    [][\A o \in Ops, k \in Attempts :
          HandlesErrorAtBudget(o, k) /\ Stepped(o, k)
          => /\ ex'[o][k].pc # "thrown"
             /\ ex'[o][k].pc = "returned"
                => /\ ex'[o][k].result = "fail"
                   /\ \/ GuideTerminal(RowNext(o).status)
                      \/ RowNext(o).token
                            \notin {NullToken, generateProcessingToken(o, k)}]_vars

(***************************************************************************)
(* Scenario C: a manual retry of one guide of a finished run.              *)
(***************************************************************************)
\* the guides of the run: g1 is retried, g2 is left alone
RetryGuides == {"g1", "g2"}

\* a needs_attention guide as processGuide leaves it after `attempts`
\* acquisitions: forced failure, or a search without results
FailedGuide(force, attempts) ==
    IF force
    THEN [NewGuide(TRUE) EXCEPT !.status = "needs_attention", !.attempts = attempts,
                                !.leases = attempts, !.search = "empty",
                                !.reason = "no_content", !.html = "skeleton"]
    ELSE [NewGuide(FALSE) EXCEPT !.status = "needs_attention", !.attempts = attempts,
                                 !.leases = attempts, !.search = "empty",
                                 !.reason = "no_content"]

\* the run after guideGenerationWorkflow has finished: g1 in
\* needs_attention, g2 completed or in needs_attention, the cached counters
\* as refinalizeRun computed them.  (orch runs no workflow here: it keeps the
\* counters and the attempts value of g1 from before the retry request.)
InitRetry ==
    /\ files = [f \in Files |-> [NewFile EXCEPT !.status = "converted",
                                                !.content = "markdown"]]
    /\ \E force \in BOOLEAN, a \in 1..(ATTEMPT_BUDGET - 1),
          s2 \in {"completed", "needs_attention"} :
          /\ guides = [g \in RetryGuides |->
                          IF g = "g1" THEN FailedGuide(force, a) ELSE GuideInStatus(s2)]
          /\ LET c == IF s2 = "completed" THEN 1 ELSE 0
             IN  /\ run = [NewRun(Cardinality(Files), Cardinality(RetryGuides))
                              EXCEPT !.status = "completed_with_errors",
                                     !.stage = "complete", !.convertedFiles = 1,
                                     !.completedGuides = c,
                                     !.failedGuides = Cardinality(RetryGuides) - c,
                                     !.completedAt = 0]
                 /\ orch = [pc |-> "none", completedGuides |-> c,
                            failedGuides |-> Cardinality(RetryGuides) - c,
                            attempts |-> a]
    /\ ex = [o \in Ops |-> [k \in Attempts |-> NewExec]]
    /\ host = [o \in Ops |->
                  IF o \in Routes THEN NewHost
                  ELSE [NewHost EXCEPT !.state = "completed", !.cur = 1]]
    /\ route = [r \in Routes |-> "idle"]
    /\ wf = [r \in Routes |-> NewWf]
    /\ now = 0
    /\ faults = 0

\* the steps of processGuide(runId, guideId, true)
ManualExecStep(o, k) ==
    \/ ProcessGuideRead(o, k)
    \/ GuideAcquire(o, k)
    \/ GuideReread(o, k)
    \/ RefreshLease(o, k)
    \/ GuideSearchThrow(o, k)
    \/ GuideSearchCatch(o, k)
    \/ GuideSearchEmpty(o, k)
    \/ GuideSearchFound(o, k)
    \/ GuideToGenerating(o, k)
    \/ GuideUnexpectedError(o, k)
    \/ GuideGenerateThrow(o, k)
    \/ GuideGenerateCatch(o, k)
    \/ GuideGenerateFinalize(o, k)
    \/ GuideFinalReread(o, k)
    \/ GuideCleanup1(o, k)
    \/ GuideCleanup2(o, k)

NextRetry ==
    \/ \E r \in MainRoutes, k \in Attempts : ManualExecStep(r, k)
    \/ \E r \in MainRoutes : HostStep(r)
    \/ \E r \in MainRoutes : RetryStep(r)
    \/ Tick

SpecRetry == InitRetry /\ [][NextRetry]_vars

(***************************************************************************)
(* C24: manual retry (Scenario C).                                         *)
(***************************************************************************)
\* the status of guide g changes in this step and becomes s
Becomes(g, s) == guides'[g].status # guides[g].status /\ guides'[g].status = s

\* C24: a manually retried guide is completed only out of generating and
\* gets to generating only out of searching; its attempts counter is
\* changed by lease acquisitions only, never drops below its value from
\* before the retry, and the first acquisition of the retry stores that
\* value + 1; and once the retry workflow has reconciled the run with the
\* guide completed (the other guide unchanged), the cached failedGuides is
\* 1 less and completedGuides 1 more than before the retry
C24_ManualRetry ==
    [][/\ Becomes("g1", "completed") => guides["g1"].status = "generating"
       /\ Becomes("g1", "generating") => guides["g1"].status = "searching"
       /\ guides'["g1"].attempts >= orch.attempts
       /\ guides'["g1"].attempts # guides["g1"].attempts => AcquiredLease("g1")
       /\ AcquiredLease("g1")
            => /\ guides'["g1"].attempts > orch.attempts
               /\ guides["g1"].leases = orch.attempts
                    => guides'["g1"].attempts = orch.attempts + 1
       /\ (wf'["r1"].pc = "done" /\ guides'["g1"].status = "completed")
            => /\ run'.failedGuides = orch.failedGuides - 1
               /\ run'.completedGuides = orch.completedGuides + 1]_vars

(***************************************************************************)
(* A whole run without failures: guideGenerationWorkflow, one              *)
(* fileChunkWorkflow, one guideChunkWorkflow and their activities, over    *)
(* two files and two guides, each guide with or without forceFailure.      *)
(***************************************************************************)
\* `const BATCH_SIZE = 5` of fileChunkWorkflow, `const BATCH_SIZE = 10` of
\* guideChunkWorkflow
FILE_BATCH_SIZE == 5
GUIDE_BATCH_SIZE == 10
BatchSize(w) == IF w = "file" THEN FILE_BATCH_SIZE ELSE GUIDE_BATCH_SIZE

ScenarioFiles == {"f1", "f2"}
ScenarioGuides == {"g1", "g2"}

\* the chunk workflows; the fileIds / guideIds argument of each is kept as
\* the activity invocations it makes
ChunkWorkflows == {"file", "guide"}
ChunkIds(w) == wf[w].ids

NewChunkWf(ids) ==
    [pc |-> "idle", ids |-> ids, i |-> 0, successCount |-> 0, failedCount |-> 0,
     batchSuccess |-> 0, batchFailed |-> 0]

\* fileIds.slice(i, i + BATCH_SIZE)
ChunkBatch(w) == {ChunkIds(w)[j] : j \in Batch(ChunkIds(w), wf[w].i, BatchSize(w))}

\* executeChild starts the chunk workflow
ChunkWorkflowStart(w) ==
    /\ wf[w].pc = "idle"
    /\ 1 \in DOMAIN Chunks(w)
    /\ Chunks(w)[1] = "running"
    /\ wf' = [wf EXCEPT ![w].pc = "batch"]
    /\ UNCHANGED <<files, guides, run, ex, host, route, now, faults, orch>>

\* batch.map((id) => acts.convertFile(runId, id)): every activity of the
\* batch is scheduled
ChunkLaunchBatch(w) ==
    /\ wf[w].pc = "batch"
    /\ wf[w].i < Len(ChunkIds(w))
    /\ host' = [o \in DOMAIN host |->
                   IF o \in ChunkBatch(w)
                   THEN [NewHost EXCEPT !.state = "running", !.cur = 1]
                   ELSE host[o]]
    /\ ex' = [o \in DOMAIN ex |->
                 IF o \in ChunkBatch(w)
                 THEN [ex[o] EXCEPT ![1] = [NewExec EXCEPT !.pc = "start"]]
                 ELSE ex[o]]
    /\ wf' = [wf EXCEPT ![w].pc = "await"]
    /\ UNCHANGED <<files, guides, run, route, now, faults, orch>>

\* a batch whose counters are passed on without incrementConvertedFiles /
\* incrementGuideProgress
ChunkBatchSettled_NoIncrement(w) ==
    /\ wf[w].pc = "await"
    /\ \A o \in ChunkBatch(w) : host[o].state \in {"completed", "failed"}
    /\ LET ok == {o \in ChunkBatch(w) :
                     host[o].state = "completed" /\ host[o].result = "ok"}
           batchSuccess == Cardinality(ok)
           batchFailed == Cardinality(ChunkBatch(w)) - Cardinality(ok)
       IN  wf' = [wf EXCEPT ![w] =
                     [@ EXCEPT !.successCount = @ + batchSuccess,
                               !.failedCount = @ + batchFailed,
                               !.batchSuccess = batchSuccess,
                               !.batchFailed = batchFailed,
                               !.pc = "batch",
                               !.i = @ + BatchSize(w)]]
    /\ UNCHANGED <<files, guides, run, ex, host, route, now, faults, orch>>

\* a wait that rejects with the first rejected activity (Promise.all): the
\* loop is left with the counts as they stand
ChunkBatchSettled_Rejects(w) ==
    /\ wf[w].pc = "await"
    /\ \A o \in ChunkBatch(w) : host[o].state \in {"completed", "failed"}
    /\ LET ok == {o \in ChunkBatch(w) :
                     host[o].state = "completed" /\ host[o].result = "ok"}
           rejected == \E o \in ChunkBatch(w) : host[o].state = "failed"
           batchSuccess == IF rejected THEN 0 ELSE Cardinality(ok)
           batchFailed == IF rejected THEN 0
                          ELSE Cardinality(ChunkBatch(w)) - Cardinality(ok)
           increment == IF w = "file" THEN batchSuccess > 0
                        ELSE batchSuccess > 0 \/ batchFailed > 0
       IN  wf' = [wf EXCEPT ![w] =
                     [@ EXCEPT !.successCount = @ + batchSuccess,
                               !.failedCount = @ + batchFailed,
                               !.batchSuccess = batchSuccess,
                               !.batchFailed = batchFailed,
                               !.pc = IF increment THEN "increment" ELSE "batch",
                               !.i = IF rejected THEN Len(ChunkIds(w))
                                     ELSE IF increment THEN @ ELSE @ + BatchSize(w)]]
    /\ UNCHANGED <<files, guides, run, ex, host, route, now, faults, orch>>

\* a wait that ends with the first activity of the batch to settle
ChunkBatchSettled_Any(w) ==
    /\ wf[w].pc = "await"
    /\ \E o \in ChunkBatch(w) : host[o].state \in {"completed", "failed"}
    /\ LET ok == {o \in ChunkBatch(w) :
                     host[o].state = "completed" /\ host[o].result = "ok"}
           batchSuccess == Cardinality(ok)
           batchFailed == Cardinality(ChunkBatch(w)) - Cardinality(ok)
           increment == IF w = "file" THEN batchSuccess > 0
                        ELSE batchSuccess > 0 \/ batchFailed > 0
       IN  wf' = [wf EXCEPT ![w] =
                     [@ EXCEPT !.successCount = @ + batchSuccess,
                               !.failedCount = @ + batchFailed,
                               !.batchSuccess = batchSuccess,
                               !.batchFailed = batchFailed,
                               !.pc = IF increment THEN "increment" ELSE "batch",
                               !.i = IF increment THEN @ ELSE @ + BatchSize(w)]]
    /\ UNCHANGED <<files, guides, run, ex, host, route, now, faults, orch>>

\* await Promise.allSettled(...) returns: count the fulfilled results with
\* value.success, the others as failed
ChunkBatchSettled(w) ==
    /\ wf[w].pc = "await"
    /\ \A o \in ChunkBatch(w) : host[o].state \in {"completed", "failed"}
    /\ LET ok == {o \in ChunkBatch(w) :
                     host[o].state = "completed" /\ host[o].result = "ok"}
           batchSuccess == Cardinality(ok)
           batchFailed == Cardinality(ChunkBatch(w)) - Cardinality(ok)
           increment == IF w = "file" THEN batchSuccess > 0
                        ELSE batchSuccess > 0 \/ batchFailed > 0
       IN  wf' = [wf EXCEPT ![w] =
                     [@ EXCEPT !.successCount = @ + batchSuccess,
                               !.failedCount = @ + batchFailed,
                               !.batchSuccess = batchSuccess,
                               !.batchFailed = batchFailed,
                               !.pc = IF increment THEN "increment" ELSE "batch",
                               !.i = IF increment THEN @ ELSE @ + BatchSize(w)]]
    /\ UNCHANGED <<files, guides, run, ex, host, route, now, faults, orch>>

\* incrementConvertedFiles / incrementGuideProgress, then the next batch
ChunkIncrement(w) ==
    /\ wf[w].pc = "increment"
    /\ run' = IF w = "file"
              THEN [run EXCEPT !.convertedFiles = @ + wf[w].batchSuccess]
              ELSE [run EXCEPT !.completedGuides = @ + wf[w].batchSuccess,
                               !.failedGuides = @ + wf[w].batchFailed]
    /\ wf' = [wf EXCEPT ![w] = [@ EXCEPT !.pc = "batch", !.i = @ + BatchSize(w)]]
    /\ UNCHANGED <<files, guides, ex, host, route, now, faults, orch>>

\* return { success: successCount, failed: failedCount }: the child settles
ChunkReturn(w) ==
    /\ wf[w].pc = "batch"
    /\ wf[w].i >= Len(ChunkIds(w))
    /\ wf' = [wf EXCEPT ![w].pc = "done"]
    /\ orch' = WithChunks(orch, w, [Chunks(w) EXCEPT ![1] = "fulfilled"])
    /\ UNCHANGED <<files, guides, run, ex, host, route, now, faults>>

\* the run as POST /api/runs leaves it; withFailures marks guides
InitScenario ==
    /\ files = [f \in ScenarioFiles |-> NewFile]
    /\ guides \in [ScenarioGuides -> {NewGuide(FALSE), NewGuide(TRUE)}]
    /\ run = NewRun(Cardinality(ScenarioFiles), Cardinality(ScenarioGuides))
    /\ ex = [o \in ScenarioOps |-> [k \in Attempts |-> NewExec]]
    /\ host = [o \in ScenarioOps |-> NewHost]
    /\ route = [r \in Routes |-> "idle"]
    /\ wf = [w \in {"main"} \cup ChunkWorkflows |->
                IF w = "main" THEN NewWf
                ELSE IF w = "file" THEN NewChunkWf(<<"cf1", "cf2">>)
                ELSE NewChunkWf(<<"pg1", "pg2">>)]
    /\ now = 0
    /\ faults = 0
    /\ orch = NewOrch

\* the steps of convertFile and processGuide when conversion, search and
\* generation do not fail
ScenarioExecStep(o, k) ==
    \/ ConvertFileRead(o, k)
    \/ ConvertFileAcquire(o, k)
    \/ ConvertFileFinalize(o, k)
    \/ ProcessGuideRead(o, k)
    \/ GuideAcquire(o, k)
    \/ RefreshLease(o, k)
    \/ GuideForceFinalize(o, k)
    \/ GuideSearchFound(o, k)
    \/ GuideToGenerating(o, k)
    \/ GuideGenerateFinalize(o, k)

NextScenario ==
    \/ OrchStart
    \/ DispatchBatch
    \/ BatchSettled
    \/ FileResults
    \/ GuideResults
    \/ RefinalizeRead("main")
    \/ RefinalizeWrite("main")
    \/ OrchComplete
    \/ \E w \in ChunkWorkflows :
          \/ ChunkWorkflowStart(w)
          \/ ChunkLaunchBatch(w)
          \/ ChunkBatchSettled(w)
          \/ ChunkIncrement(w)
          \/ ChunkReturn(w)
    \/ \E o \in ScenarioOps, k \in Attempts : ScenarioExecStep(o, k)
    \/ \E o \in ScenarioOps : HostObserve(o)
    \/ Tick

SpecScenario == InitScenario /\ [][NextScenario]_vars

\* every workflow task and activity that can take a step takes it
SpecScenarioFair == SpecScenario /\ WF_vars(NextScenario)

(***************************************************************************)
(* C25: failure-free run (Scenario A).                                     *)
(***************************************************************************)
\* no guide of the run carries forceFailure
NoForcedFailure == \A g \in DOMAIN guides : ~guides[g].force

\* guideGenerationWorkflow has ended with everything done
RunSucceeded ==
    /\ orch.pc = "done"
    /\ run.status = "completed" /\ run.stage = "complete"
    /\ run.convertedFiles = run.totalFiles
    /\ run.completedGuides = run.totalGuides
    /\ run.failedGuides = 0
    /\ \A f \in DOMAIN files : files[f].status = "converted"
    /\ \A g \in DOMAIN guides : guides[g].status = "completed"

\* C25: a run without forced failures, without conversion, search or
\* generation failures and without crashes eventually ends with run status
\* completed, stage complete, convertedFiles = totalFiles, completedGuides =
\* totalGuides, failedGuides = 0, every file converted and every guide
\* completed
C25_FailureFreeRun == NoForcedFailure ~> RunSucceeded

\* such a run has ended: both files converted, both guides completed at
\* their first attempt
C25_Witness ==
    /\ NoForcedFailure
    /\ RunSucceeded
    /\ run.totalFiles = Cardinality(ScenarioFiles)
    /\ run.totalGuides = Cardinality(ScenarioGuides)
    /\ \A g \in DOMAIN guides : guides[g].attempts = 1
    /\ wf["file"].successCount = run.totalFiles

(***************************************************************************)
(* C26: forced failures (Scenario B).                                      *)
(***************************************************************************)
\* the guides that carry forceFailure
ForceFailed == {g \in DOMAIN guides : guides[g].force}

\* C26: when guideGenerationWorkflow has ended in a run where k guides
\* carry forceFailure and nothing else fails, failedGuides = k,
\* completedGuides = totalGuides - k, the run status is
\* completed_with_errors (k > 0), and every force-failed guide is in
\* needs_attention with a failure reason, empty search results and
\* attempts = 1
C26_ForcedFailures ==
    orch.pc = "done"
    => /\ run.failedGuides = Cardinality(ForceFailed)
       /\ run.completedGuides = run.totalGuides - Cardinality(ForceFailed)
       /\ ForceFailed # {} => run.status = "completed_with_errors"
       /\ \A g \in ForceFailed :
             /\ guides[g].status = "needs_attention"
             /\ guides[g].reason # "null"
             /\ guides[g].search = "empty"
             /\ guides[g].attempts = 1
       /\ \A g \in DOMAIN guides \ ForceFailed : guides[g].status = "completed"

\* a run with one force-failed guide out of two has ended
C26_Witness ==
    /\ orch.pc = "done"
    /\ Cardinality(ForceFailed) = 1
    /\ run.status = "completed_with_errors"
    /\ run.failedGuides = 1 /\ run.completedGuides = 1

(***************************************************************************)
(* C27: a finalize by a stale holder reports the recorded status.          *)
(***************************************************************************)
\* positions from which an execution issues a terminal write conditioned on
\* its token: the success path and the failure paths
FinalizePcs == {"convert", "force", "search", "searchCatch", "generating", "generateCatch"}

\* the execution (o, k) returns in this step, either right after a terminal
\* write that matched no row because the row no longer carries its token, or
\* from the re-read that follows such a write
StaleFinalizeReturns(o, k) ==
    /\ Stepped(o, k)
    /\ ex'[o][k].pc = "returned"
    /\ \/ Exec(o, k).pc = "finalReread"
       \/ /\ Exec(o, k).pc \in FinalizePcs
          /\ Row(o).token # generateProcessingToken(o, k)

\* the recorded status is the success-terminal one
RowSuccessTerminal(o, row) ==
    IF OpKind(o) = "file" THEN row.status = "converted" ELSE row.status = "completed"

\* C27: a worker whose token-conditioned terminal write affects no row
\* after a takeover returns success exactly when the item's recorded status
\* is converted (file) or completed (guide), on the success path and on the
\* failure paths of convertFile and processGuide
C27_StaleFinalizeReportsRecorded ==
    [][\A o \in Ops, k \in Attempts :
          StaleFinalizeReturns(o, k)
          => (ex'[o][k].result = "ok" <=> RowSuccessTerminal(o, RowNext(o)))]_vars

(***************************************************************************)
(* C28: renewal and abort.                                                 *)
(***************************************************************************)
\* the heartbeat of guide g is renewed in this step: it changes while the
\* token stays (an acquisition or a release changes the token)
Renewed(g) ==
    /\ guides'[g].heartbeatAt # guides[g].heartbeatAt
    /\ guides'[g].token = guides[g].token

\* refreshLease of (o, k) throws in this step
AbortSignalled(o, k) == ex'[o][k].err = "LeaseLost" /\ Exec(o, k).err # "LeaseLost"

\* C28: processingHeartbeatAt is renewed only by the execution whose token
\* the row carries; a renewal is answered with the abort signal exactly
\* when the row carries another token, and the execution that got the
\* signal makes no write that changes the guide row from then on (it does
\* not turn the guide into needs_attention)
C28_RenewalAndAbort ==
    [][/\ \A g \in DOMAIN guides :
             Renewed(g)
             => \E o \in Ops, k \in Attempts :
                   /\ OpKind(o) = "guide" /\ OpItem(o) = g /\ Stepped(o, k)
                   /\ guides[g].token = generateProcessingToken(o, k)
       /\ \A o \in Ops, k \in Attempts :
             /\ AbortSignalled(o, k)
                => Row(o).token # generateProcessingToken(o, k) /\ guides' = guides
             /\ Stepped(o, k) /\ Exec(o, k).err = "LeaseLost" => guides' = guides]_vars

\* an execution got the abort signal at a renewal, has gone through its
\* catch block, and the guide is in progress under the new holder's token
C28_Witness ==
    \E o \in Ops, k \in Attempts :
        /\ OpKind(o) = "guide"
        /\ Exec(o, k).pc = "thrown" /\ Exec(o, k).err = "LeaseLost"
        /\ Exec(o, k).stale
        /\ Row(o).token \notin {NullToken, generateProcessingToken(o, k)}
        /\ GuideInProgress(Row(o).status)

(***************************************************************************)
(* C29: transient failure with remaining attempt budget.                   *)
(***************************************************************************)
\* the execution (o, k), at attempt number < 3 and holding the lease, runs
\* the catch block of the search step or of the generation step (its worker
\* does not die there)
CatchesWithBudget(o, k) ==
    /\ OpKind(o) = "guide"
    /\ Stepped(o, k)
    /\ ex'[o][k].pc # "crashed"
    /\ Exec(o, k).pc \in {"searchCatch", "generateCatch"}
    /\ Exec(o, k).attempt < ATTEMPT_BUDGET
    /\ Row(o).token = generateProcessingToken(o, k)

\* C29: when search or generation fails at attempt number < 3 and the
\* worker still holds the lease, the guide is reset to pending with
\* processingToken, processingStartedAt and processingHeartbeatAt null and
\* the error is rethrown, so that the next attempt's acquire succeeds at once
C29_TransientReset ==
    [][\A o \in Ops, k \in Attempts :
          CatchesWithBudget(o, k)
          => /\ RowNext(o).status = "pending"
             /\ RowNext(o).token = NullToken
             /\ RowNext(o).startedAt = NullTime
             /\ RowNext(o).heartbeatAt = NullTime
             /\ ex'[o][k].pc = "thrown"
             /\ GuideAcquirable(RowNext(o), now, OpManual(o))]_vars

\* a first attempt failed in generation while holding the lease: it has
\* rethrown and the guide is pending, lease-free, with the search results
\* of that attempt kept
C29_Witness ==
    \E o \in Ops, k \in Attempts :
        /\ OpKind(o) = "guide"
        /\ Exec(o, k).pc = "thrown" /\ Exec(o, k).err = "Transient"
        /\ Exec(o, k).attempt = 1 /\ ~Exec(o, k).stale
        /\ Row(o).status = "pending" /\ Row(o).token = NullToken
        /\ Row(o).startedAt = NullTime /\ Row(o).heartbeatAt = NullTime
        /\ Row(o).details = "lastError" /\ Row(o).search = "some"

(***************************************************************************)
(* One chunk workflow alone, over ID lists longer than its BATCH_SIZE; the *)
(* activities are kept as promises that settle.                            *)
(***************************************************************************)
\* the largest number of full groups in a chunk's ID list
MaxGroups == 2

\* lengths of the ID list: empty, one full group, full groups and one more
ChunkLengths(w) == {0, BatchSize(w), MaxGroups * BatchSize(w) + 1}

\* the promise of activity o settles: rejected when its item is one of
\* those that fail, fulfilled with success otherwise
ActivitySettles(w, o) ==
    /\ wf[w].pc = "await"
    /\ o \in ChunkBatch(w)
    /\ host[o].state = "running"
    /\ host' = [host EXCEPT ![o] =
                   IF o \in wf[w].failing
                   THEN [@ EXCEPT !.state = "failed", !.err = "Transient"]
                   ELSE [@ EXCEPT !.state = "completed", !.result = "ok"]]
    /\ UNCHANGED <<files, guides, run, ex, route, wf, now, faults, orch>>

\* the parent has started chunk workflow w with n IDs; the first or the
\* last item, or none, is one whose activity fails
InitBatch ==
    /\ \E w \in ChunkWorkflows, n \in 0..(MaxGroups * GUIDE_BATCH_SIZE + 1) :
          /\ n \in ChunkLengths(w)
          /\ \E failing \in {{}, {1} \cap (1..n), {n} \cap (1..n)} :
                wf = [v \in ChunkWorkflows |->
                         IF v = w
                         THEN [ids |-> IdList(n), failing |-> failing, pc |-> "idle",
                               i |-> 0, successCount |-> 0, failedCount |-> 0,
                               batchSuccess |-> 0, batchFailed |-> 0]
                         ELSE [ids |-> <<>>, failing |-> {}, pc |-> "none",
                               i |-> 0, successCount |-> 0, failedCount |-> 0,
                               batchSuccess |-> 0, batchFailed |-> 0]]
          /\ host = [o \in 1..n |-> NewHost]
          /\ ex = [o \in 1..n |-> [k \in Attempts |-> NewExec]]
          /\ orch = [NewOrch EXCEPT !.pc = "await", !.phase = w,
                                    !.fileChunks = IF w = "file" THEN <<"running">>
                                                   ELSE <<>>,
                                    !.guideChunks = IF w = "guide" THEN <<"running">>
                                                    ELSE <<>>]
          /\ run = [NewRun(IF w = "file" THEN n ELSE 0, IF w = "guide" THEN n ELSE 0)
                       EXCEPT !.stage = IF w = "file" THEN "converting_documents"
                                        ELSE "writing_guides"]
    /\ files = [f \in {} |-> NewFile]
    /\ guides = [g \in {} |-> NewGuide(FALSE)]
    /\ route = [r \in Routes |-> "idle"]
    /\ now = 0
    /\ faults = 0

NextBatch ==
    \E w \in ChunkWorkflows :
        \/ ChunkWorkflowStart(w)
        \/ ChunkLaunchBatch(w)
        \/ \E o \in 1..(MaxGroups * GUIDE_BATCH_SIZE + 1) : ActivitySettles(w, o)
        \/ ChunkBatchSettled(w)
        \/ ChunkIncrement(w)
        \/ ChunkReturn(w)

SpecBatch == InitBatch /\ [][NextBatch]_vars

(***************************************************************************)
(* C30: batch executor barrier.                                            *)
(***************************************************************************)
\* the chunk workflow that runs
Running(w) == wf[w].pc \notin {"none"}

\* activity invocations of w in flight
ActivitiesInFlight(w) ==
    {j \in DOMAIN ChunkIds(w) : host[ChunkIds(w)[j]].state = "running"}

\* group number of the j-th ID: the iteration of the for loop that takes it
GroupOf(w, j) == (j - 1) \div BatchSize(w)

\* C30: inside a chunk workflow at most BATCH_SIZE activities are in
\* flight at once (5 convertFile, 10 processGuide), and no activity of a
\* later group has been started while one of an earlier group has not
\* settled
C30_BatchBarrier ==
    \A w \in ChunkWorkflows :
        Running(w)
        => /\ Cardinality(ActivitiesInFlight(w)) <= BatchSize(w)
           /\ \A p, q \in DOMAIN ChunkIds(w) :
                 /\ GroupOf(w, p) < GroupOf(w, q)
                 /\ host[ChunkIds(w)[q]].state # "idle"
                 => host[ChunkIds(w)[p]].state \in {"completed", "failed"}

\* a full group of guideChunkWorkflow is in flight at once, after the group
\* before it has settled, with IDs of a third group not started
C30_Witness ==
    /\ Running("guide")
    /\ Cardinality(ActivitiesInFlight("guide")) = GUIDE_BATCH_SIZE
    /\ wf["guide"].i = GUIDE_BATCH_SIZE
    /\ Len(ChunkIds("guide")) > 2 * GUIDE_BATCH_SIZE
    /\ host[Len(ChunkIds("guide"))].state = "idle"

(***************************************************************************)
(* C31: partial results of a chunk workflow.                               *)
(***************************************************************************)
\* IDs of chunk workflow w whose activity has settled
SettledIds(w) ==
    {j \in DOMAIN ChunkIds(w) : host[ChunkIds(w)[j]].state \in {"completed", "failed"}}

\* IDs of chunk workflow w whose activity was rejected
RejectedIds(w) ==
    {j \in DOMAIN ChunkIds(w) : host[ChunkIds(w)[j]].state = "failed"}

\* C31: in a chunk workflow an activity that rejects is counted as one
\* failure and stops neither its siblings nor the later groups: no settled
\* activity is started again, and when the workflow returns every ID has
\* been run, success + failed is the number of IDs and failed is the number
\* of rejected activities
C31_PartialResults ==
    [][\A w \in ChunkWorkflows :
          /\ \A j \in SettledIds(w) :
                host'[ChunkIds(w)[j]] = host[ChunkIds(w)[j]]
          /\ wf'[w].pc = "done"
             => /\ \A j \in DOMAIN ChunkIds(w) :
                      /\ host'[ChunkIds(w)[j]].state \in {"completed", "failed"}
                      /\ host'[ChunkIds(w)[j]].cur = 1
                /\ wf'[w].successCount + wf'[w].failedCount = Len(ChunkIds(w))
                /\ wf'[w].failedCount = Cardinality(RejectedIds(w))]_vars

\* guideChunkWorkflow has returned 20 successes and 1 failure for 21 IDs,
\* the first of which was rejected
C31_Witness ==
    /\ wf["guide"].pc = "done"
    /\ Len(ChunkIds("guide")) > 2 * GUIDE_BATCH_SIZE
    /\ RejectedIds("guide") = {1}
    /\ wf["guide"].failedCount = 1
    /\ wf["guide"].successCount = Len(ChunkIds("guide")) - 1

(***************************************************************************)
(* C32: manual retry is the only way out of needs_attention.               *)
(***************************************************************************)
\* execution (o, k) runs the lease-acquiring updateMany to its end
AcquireRuns(o, k) ==
    /\ OpKind(o) = "guide"
    /\ Exec(o, k).pc = "acquire"
    /\ ex'[o][k].pc \notin {"acquire", "crashed"}

\* the row carries the lease of execution (o, k) in status searching
TakenBy(row, o, k) ==
    row.status = "searching" /\ row.token = generateProcessingToken(o, k)

\* C32: a processGuide execution with isManualRetry = false never acquires
\* the lease of a guide in needs_attention and never changes such a guide;
\* an execution with isManualRetry = true acquires the lease from
\* needs_attention as well as from pending or an expired in-progress status
C32_ManualOnly ==
    [][\A o \in Ops, k \in Attempts :
          /\ OpKind(o) = "guide" /\ Stepped(o, k) /\ ~OpManual(o)
             /\ Row(o).status = "needs_attention"
             => RowNext(o) = Row(o)
          /\ AcquireRuns(o, k) /\ OpManual(o)
             => (TakenBy(RowNext(o), o, k)
                 <=> \/ Row(o).status \in {"needs_attention", "pending"}
                     \/ GuideInProgress(Row(o).status) /\ LeaseExpired(o, Row(o), now))]_vars

\* an execution of a retry workflow holds the lease it acquired on a guide
\* that was in needs_attention: the failure reason is still stored
C32_Witness ==
    \E o \in Routes, k \in Attempts :
        /\ TakenBy(guides[OpItem(o)], o, k)
        /\ guides[OpItem(o)].reason # "null"
        /\ Exec(o, k).pc \in {"search", "toGenerating"}

(***************************************************************************)
(* C33: the cleanup of processGuide after an error with no budget left.    *)
(***************************************************************************)
\* execution (o, k) runs one of the two cleanup writes
CleanupRuns(o, k) ==
    /\ OpKind(o) = "guide"
    /\ Exec(o, k).pc \in {"cleanup1", "cleanup2"}
    /\ ex'[o][k].pc \notin {Exec(o, k).pc, "crashed"}

\* C33: the cleanup runs at attempt >= 3 only; its first write changes the
\* guide only if the stored token is the execution's own, its second only
\* if the guide is in pending, searching or generating with no stored
\* token; a write leaves needs_attention with the lease fields cleared; a
\* guide in completed or needs_attention, or whose lease another execution
\* holds, is never changed
C33_CleanupConditions ==
    [][\A o \in Ops, k \in Attempts :
          CleanupRuns(o, k)
          => LET row == Row(o)
                 token == generateProcessingToken(o, k)
             IN  /\ Exec(o, k).attempt >= ATTEMPT_BUDGET
                 /\ RowNext(o) # row
                    <=> IF Exec(o, k).pc = "cleanup1" THEN row.token = token
                        ELSE /\ row.token = NullToken
                             /\ row.status \in {"pending", "searching", "generating"}
                 /\ RowNext(o) # row
                    => /\ RowNext(o).status = "needs_attention"
                       /\ RowNext(o).token = NullToken
                       /\ RowNext(o).startedAt = NullTime
                       /\ RowNext(o).heartbeatAt = NullTime
                 /\ GuideTerminal(row.status) => RowNext(o) = row
                 /\ row.token \notin {NullToken, token} => RowNext(o) = row]_vars

\* an execution at attempt >= 3, none of whose writes missed, has returned
\* failure and the guide carries what the cleanup writes
C33_Witness ==
    \E o \in Ops, k \in Attempts :
        /\ OpKind(o) = "guide"
        /\ Exec(o, k).pc = "returned" /\ Exec(o, k).result = "fail"
        /\ Exec(o, k).attempt >= ATTEMPT_BUDGET
        /\ Exec(o, k).wrote /\ ~Exec(o, k).stale
        /\ guides[OpItem(o)].status = "needs_attention"
        /\ guides[OpItem(o)].reason = "unexpected"
        /\ guides[OpItem(o)].html = "skeleton"
        /\ guides[OpItem(o)].token = NullToken

(***************************************************************************)
(* Two manual-retry requests for the same guide of a finished run, and the *)
(* retry workflows they start; the host neither times out nor crashes.     *)
(***************************************************************************)
\* as InitRetry, the guide one acquisition short of its attempt budget
InitOverlap == InitRetry /\ guides["g1"].attempts = ATTEMPT_BUDGET - 1

NextOverlap ==
    \/ \E r \in Routes, k \in Attempts : ManualExecStep(r, k)
    \/ \E r \in Routes : HostStart(r) \/ HostObserve(r)
    \/ \E r \in Routes : RetryStep(r)
    \/ Tick

SpecOverlap == InitOverlap /\ [][NextOverlap]_vars

(***************************************************************************)
(* C34: guide status graph.                                                *)
(***************************************************************************)
\* validTransitions of 'Guide Status Transitions'
GuideStatusTransitions ==
    {<<"pending", "searching">>, <<"pending", "needs_attention">>,
     <<"searching", "generating">>, <<"searching", "needs_attention">>,
     <<"searching", "pending">>,
     <<"generating", "completed">>, <<"generating", "needs_attention">>,
     <<"generating", "pending">>,
     <<"needs_attention", "searching">>}

\* changes the code makes on purpose outside that list: the retry request
\* resets needs_attention to pending, and the takeover of an expired lease
\* restarts a generating guide in searching
RestartTransitions ==
    {<<"needs_attention", "pending">>, <<"generating", "searching">>}

\* C34: every change of a guide's status, by any operation, is one of
\* pending->searching, pending->needs_attention, searching->generating,
\* searching->needs_attention, searching->pending, generating->completed,
\* generating->needs_attention, generating->pending,
\* needs_attention->searching (here also the two restarts above);
\* completed has no outgoing change
C34_GuideStatusGraph ==
    [][\A g \in Guides :
          guides'[g].status # guides[g].status
          => <<guides[g].status, guides'[g].status>>
                 \in GuideStatusTransitions \cup RestartTransitions]_vars

(***************************************************************************)
(* C35: lease fields follow status.                                        *)
(***************************************************************************)
\* C35: a guide's processingToken is non-null exactly when its status is
\* searching or generating, its lease timestamps are null whenever the
\* token is null, and a file's processingToken is non-null exactly when its
\* status is converting
C35_LeaseFollowsStatus ==
    /\ \A g \in DOMAIN guides :
          /\ guides[g].token # NullToken <=> GuideInProgress(guides[g].status)
          /\ guides[g].token = NullToken
             => guides[g].startedAt = NullTime /\ guides[g].heartbeatAt = NullTime
    /\ \A f \in DOMAIN files :
          files[f].token # NullToken <=> files[f].status = "converting"

(***************************************************************************)
(* C36: overlapping manual-retry requests.                                 *)
(***************************************************************************)
\* request r runs its db.guide.update
RouteWrites(r) == route[r] = "reset" /\ route'[r] = "run"

\* the lease of the row is held: a token is stored and has not expired
LeaseHeld(row, t) ==
    /\ row.token # NullToken
    /\ GuideInProgress(row.status)
    /\ ~Expired(row.heartbeatAt, t)

\* C36: a retry request changes a guide only if the guide is in
\* needs_attention with no lease held at the moment of its write; in every
\* interleaving of two retry requests and their retry workflows on the same
\* guide a completed guide is never reset to pending or stripped of its
\* content, and a guide whose lease is held is never made acquirable by
\* another worker
C36_RetryRequestSafe ==
    [][/\ \A r \in Routes :
             RouteWrites(r) /\ guides'[OpItem(r)] # guides[OpItem(r)]
             => /\ guides[OpItem(r)].status = "needs_attention"
                /\ guides[OpItem(r)].token = NullToken
       /\ \A g \in DOMAIN guides :
             /\ guides[g].status = "completed"
                => /\ guides'[g].status = "completed"
                   /\ guides'[g].html = guides[g].html
             /\ LeaseHeld(guides[g], now) /\ now' = now
                => ~GuideAcquirable(guides'[g], now, TRUE)
                   \/ guides'[g].token = NullToken]_vars

(***************************************************************************)
(* The whole run of two files and two guides, with a manual retry of g1    *)
(* requested as soon as g1 is in needs_attention.                          *)
(***************************************************************************)
ProgressOps == ScenarioOps \cup MainRoutes

InitProgress ==
    /\ files = [f \in ScenarioFiles |-> NewFile]
    /\ guides \in [ScenarioGuides -> {NewGuide(FALSE), NewGuide(TRUE)}]
    /\ run = NewRun(Cardinality(ScenarioFiles), Cardinality(ScenarioGuides))
    /\ ex = [o \in ProgressOps |-> [k \in Attempts |-> NewExec]]
    /\ host = [o \in ProgressOps |-> NewHost]
    /\ route = [r \in Routes |-> "idle"]
    /\ wf = [w \in {"main"} \cup ChunkWorkflows \cup MainRoutes |->
                IF w = "file" THEN NewChunkWf(<<"cf1", "cf2">>)
                ELSE IF w = "guide" THEN NewChunkWf(<<"pg1", "pg2">>)
                ELSE NewWf]
    /\ now = 0
    /\ faults = 0
    /\ orch = NewOrch

\* the retry request and retryGuideWorkflow
ProgressRetryStep(r) ==
    \/ RouteCheck(r)
    \/ RouteResetGuide(r)
    \/ RouteUpdateRun(r)
    \/ RouteStartWorkflow(r)
    \/ HostStart(r)
    \/ \E k \in Attempts : ScenarioExecStep(r, k)
    \/ HostObserve(r)
    \/ RetryWorkflowAwait(r)
    \/ RefinalizeRead(r)
    \/ RefinalizeWrite(r)

NextProgress ==
    \/ NextScenario
    \/ \E r \in MainRoutes : ProgressRetryStep(r)

SpecProgress == InitProgress /\ [][NextProgress]_vars

(***************************************************************************)
(* C37: cached guide counters stay within the total.                       *)
(***************************************************************************)
\* C37: in every reachable state of a run the cached completedGuides +
\* failedGuides is at most totalGuides, also when the refinalizeRun of a
\* manual retry interleaves with the incrementGuideProgress calls of a
\* chunk workflow still in flight
C37_CountersWithinTotal ==
    run.completedGuides + run.failedGuides <= run.totalGuides

(***************************************************************************)
(* Stage 1 alone: fileChunkWorkflow over two files, the host timing an     *)
(* attempt out or a worker crashing.                                       *)
(***************************************************************************)
ConvertOps == {"cf1", "cf2"}

\* guideGenerationWorkflow has started the file chunk
InitConvert ==
    /\ files = [f \in ScenarioFiles |-> NewFile]
    /\ guides = [g \in ScenarioGuides |-> NewGuide(FALSE)]
    /\ run = [NewRun(Cardinality(ScenarioFiles), Cardinality(ScenarioGuides))
                 EXCEPT !.stage = "converting_documents"]
    /\ ex = [o \in ConvertOps |-> [k \in Attempts |-> NewExec]]
    /\ host = [o \in ConvertOps |-> NewHost]
    /\ route = [r \in Routes |-> "idle"]
    /\ wf = [w \in {"file"} |-> NewChunkWf(<<"cf1", "cf2">>)]
    /\ now = 0
    /\ faults = 0
    /\ orch = [NewOrch EXCEPT !.pc = "await", !.fileChunks = <<"running">>]

\* the steps of convertFile
ConvertExecStep(o, k) ==
    \/ ConvertFileRead(o, k)
    \/ ConvertFileAcquire(o, k)
    \/ ConvertFileReread(o, k)
    \/ ConvertFileFail(o, k)
    \/ ConvertFileFinalize(o, k)
    \/ ConvertFileFinalReread(o, k)

NextConvert ==
    \/ ChunkWorkflowStart("file")
    \/ ChunkLaunchBatch("file")
    \/ ChunkBatchSettled("file")
    \/ ChunkIncrement("file")
    \/ ChunkReturn("file")
    \/ \E o \in ConvertOps, k \in Attempts : ConvertExecStep(o, k)
    \/ \E o \in ConvertOps : HostObserve(o) \/ HostTimeout(o) \/ Crash(o)
    \/ Tick

SpecConvert == InitConvert /\ [][NextConvert]_vars

(***************************************************************************)
(* C38: the converted-file counter and ground truth.                       *)
(***************************************************************************)
\* count of the run's files in status converted
ConvertedCount == Cardinality({f \in DOMAIN files : files[f].status = "converted"})

\* C38: the cached convertedFiles is at most the number of the run's files
\* in status converted, and equals it once stage 1 has finished without a
\* failed chunk workflow
C38_ConvertedFilesCounter ==
    /\ run.convertedFiles <= ConvertedCount
    /\ Chunks("file") = <<"fulfilled">> => run.convertedFiles = ConvertedCount

(***************************************************************************)
(* C39: a manual retry ends in a reconciled run.                           *)
(***************************************************************************)
\* the retry workflow and its activity take the steps they can take
SpecRetryFair == SpecRetry /\ WF_vars(NextRetry)

\* the request has set the run to processing and started retryGuideWorkflow
RetryStarted == \E r \in MainRoutes : route[r] = "done"

\* the run is finished and its cached counts are those of the guide rows
RunReconciled ==
    /\ run.status \in {"completed", "completed_with_errors"}
    /\ run.completedGuides = CountStatus({"completed"})
    /\ run.failedGuides = CountStatus({"needs_attention"})

\* C39: once a manual-retry request has set the run to processing and
\* started retryGuideWorkflow, the run's status eventually returns to
\* completed or completed_with_errors with counts equal to ground truth,
\* whatever the outcome of the retried processGuide
C39_RetryReconciles == RetryStarted ~> RunReconciled
=============================================================================
